---------------------------- MODULE Spec2Model ----------------------------
(***************************************************************************)
(* Export Data Explorer: the spreadsheet import (POST /api/upload) of the  *)
(* two server variants (server/index.js, api/index.js), the column         *)
(* resolver findColumnValue they share, and their other routes: the        *)
(* tracked competitors and clients, the company, the feedback and the      *)
(* routes that only read.  The row loop is also given await by await, the  *)
(* batch tag with the clock of Date.now(), and the middleware of           *)
(* api/index.js that initializes the database with its steps.              *)
(*                                                                         *)
(* JavaScript strings are modelled as sequences of one-character strings,  *)
(* so that lower-casing, stripping, trimming and substring search are      *)
(* computed.  JavaScript numbers are modelled as integers counting         *)
(* hundredths (1200.50 is 120050), which covers the numbers with at most   *)
(* two decimals; NaN is a value of its own.                                *)
(***************************************************************************)
EXTENDS Integers, Sequences, FiniteSets, Bags, TLC

-----------------------------------------------------------------------------
(* Strings                                                                 *)

DigitChars ==
  <<"0","1","2","3","4","5","6","7","8","9">>

\* the longest decimal numeral of the model
MaxDigits == 9

\* position of c in seq, 0 when absent
IndexOf(c, seq) ==
  IF \E i \in 1..Len(seq) : seq[i] = c
  THEN CHOOSE i \in 1..Len(seq) : seq[i] = c
  ELSE 0

\* the regular expression class \s, restricted to space and tab
IsSpace(c) ==
  c \in {" ", "\t"}

IsDigit(c) ==
  IndexOf(c, DigitChars) # 0

\* the lower-case form of each upper-case letter, and conversely
LowerOf ==
  [A |-> "a", B |-> "b", C |-> "c", D |-> "d", E |-> "e", F |-> "f", G |-> "g", H |-> "h", I |-> "i",
   J |-> "j", K |-> "k", L |-> "l", M |-> "m", N |-> "n", O |-> "o", P |-> "p", Q |-> "q", R |-> "r",
   S |-> "s", T |-> "t", U |-> "u", V |-> "v", W |-> "w", X |-> "x", Y |-> "y", Z |-> "z"]

UpperOf ==
  [a |-> "A", b |-> "B", c |-> "C", d |-> "D", e |-> "E", f |-> "F", g |-> "G", h |-> "H", i |-> "I",
   j |-> "J", k |-> "K", l |-> "L", m |-> "M", n |-> "N", o |-> "O", p |-> "P", q |-> "Q", r |-> "R",
   s |-> "S", t |-> "T", u |-> "U", v |-> "V", w |-> "W", x |-> "X", y |-> "Y", z |-> "Z"]

toLowerCase(s) ==
  [i \in 1..Len(s) |-> IF s[i] \in DOMAIN LowerOf THEN LowerOf[s[i]] ELSE s[i]]

toUpperCase(s) ==
  [i \in 1..Len(s) |-> IF s[i] \in DOMAIN UpperOf THEN UpperOf[s[i]] ELSE s[i]]

\* key.toLowerCase().replace(/[\s_-]+/g, '')
Normalize(s) ==
  SelectSeq(toLowerCase(s), LAMBDA c : ~(IsSpace(c) \/ c = "_" \/ c = "-"))

trim(s) ==
  IF \A i \in 1..Len(s) : IsSpace(s[i])
  THEN << >>
  ELSE LET a == CHOOSE i \in 1..Len(s) : ~IsSpace(s[i]) /\ \A j \in 1..(i-1) : IsSpace(s[j])
           b == CHOOSE i \in 1..Len(s) : ~IsSpace(s[i]) /\ \A j \in (i+1)..Len(s) : IsSpace(s[j])
       IN  SubSeq(s, a, b)

\* hay.includes(needle)
includes(hay, needle) ==
  \E i \in 0..(Len(hay) - Len(needle)) : SubSeq(hay, i + 1, i + Len(needle)) = needle

-----------------------------------------------------------------------------
(* Cell values                                                             *)

Str(s) == [t |-> "str", s |-> s]
Num(n) == [t |-> "num", n |-> n]
NaN == [t |-> "nan"]
Null == [t |-> "null"]
Undefined == [t |-> "undefined"]
EmptyStr == Str(<< >>)

\* the decimal digits of n >= 0
DigitsOf(n) ==
  LET k == CHOOSE k \in 1..MaxDigits : n < 10^k /\ (k = 1 \/ n >= 10^(k - 1))
  IN  [i \in 1..k |-> DigitChars[((n \div 10^(k - i)) % 10) + 1]]

\* String(x) of a number x = n/100
NumToString(n) ==
  LET a == IF n < 0 THEN 0 - n ELSE n
      whole == DigitsOf(a \div 100)
      f == a % 100
      frac == IF f = 0 THEN << >>
              ELSE IF f % 10 = 0 THEN <<".", DigitChars[(f \div 10) + 1]>>
              ELSE <<".", DigitChars[(f \div 10) + 1], DigitChars[(f % 10) + 1]>>
  IN  (IF n < 0 THEN <<"-">> ELSE << >>) \o whole \o frac

\* String(v)
JSString(v) ==
  CASE v.t = "str" -> v.s
    [] v.t = "num" -> NumToString(v.n)
    [] v.t = "nan" -> <<"N","a","N">>
    [] v.t = "null" -> <<"n","u","l","l">>
    [] v.t = "undefined" -> <<"u","n","d","e","f","i","n","e","d">>

\* const x = v, followed by what uses x: v is computed once
Bind(v, F(_)) ==
  F(v)

\* JavaScript truthiness, as used by `x || d` and `if (x)`
Truthy(v) ==
  CASE v.t = "str" -> v.s # << >>
    [] v.t = "num" -> v.n # 0
    [] OTHER -> FALSE

\* x || d
OrElse(v, d) ==
  IF Truthy(v) THEN v ELSE d

\* the emptiness test written as a truthiness test: if (val)
NonEmptyTruthy(v) ==
  Truthy(v)

\* val !== undefined && val !== null && String(val).trim() !== ''
NonEmpty(v) ==
  /\ v.t # "undefined"
  /\ v.t # "null"
  /\ trim(JSString(v)) # << >>

-----------------------------------------------------------------------------
(* Rows: a row is the sequence of its (header, value) pairs in the key     *)
(* order of Object.keys; headers are distinct and not integer-like.        *)

\* row[name]
RowGet(row, name) ==
  IF \E i \in 1..Len(row) : row[i].k = name
  THEN row[CHOOSE i \in 1..Len(row) : row[i].k = name].v
  ELSE Undefined

\* keyMap[normalized] = key, for each key in order: a later key overwrites
\* the entry of an earlier key with the same normalized form
keyMapGet(row, n) ==
  IF \E i \in 1..Len(row) : Normalize(row[i].k) = n
  THEN row[CHOOSE i \in 1..Len(row) :
             /\ Normalize(row[i].k) = n
             /\ \A j \in (i+1)..Len(row) : Normalize(row[j].k) # n].k
  ELSE << >>

\* Object.entries(keyMap): the normalized keys in the order of their first
\* insertion, each with the key that was stored last
keyMapEntries(row) ==
  Bind(SelectSeq([i \in 1..Len(row) |-> i],
                 LAMBDA i : \A j \in 1..(i-1) : Normalize(row[j].k) # Normalize(row[i].k)),
       LAMBDA firsts :
         [p \in 1..Len(firsts) |->
            Bind(Normalize(row[firsts[p]].k),
                 LAMBDA nk : [normalized |-> nk, actualKey |-> keyMapGet(row, nk)])])

NotFound == [found |-> FALSE, val |-> EmptyStr]
Found(v) == [found |-> TRUE, val |-> v]

\* the first loop split in two: every alias directly, and only then every
\* alias through keyMap
DirectThenNormalized(row, possibleNames) ==
  LET direct[i \in 1..(Len(possibleNames) + 1)] ==
        IF i > Len(possibleNames) THEN NotFound
        ELSE IF NonEmpty(RowGet(row, possibleNames[i]))
        THEN Found(RowGet(row, possibleNames[i]))
        ELSE direct[i + 1]
      normalized[i \in 1..(Len(possibleNames) + 1)] ==
        IF i > Len(possibleNames) THEN NotFound
        ELSE LET key == keyMapGet(row, Normalize(possibleNames[i]))
             IN  IF key # << >> /\ NonEmpty(RowGet(row, key)) THEN Found(RowGet(row, key))
                 ELSE normalized[i + 1]
  IN  IF direct[1].found THEN direct[1] ELSE normalized[1]

\* one round of the first loop, for the alias name: the direct match, then
\* the normalized match
AliasMatch(row, name) ==
  Bind(RowGet(row, name), LAMBDA direct :
    IF NonEmpty(direct) THEN Found(direct)
    ELSE Bind(keyMapGet(row, Normalize(name)), LAMBDA key :
           Bind(RowGet(row, key), LAMBDA val :
             IF key # << >> /\ NonEmpty(val) THEN Found(val) ELSE NotFound)))

\* first loop of findColumnValue: direct match, then normalized match, alias
\* by alias; the first alias whose round returns ends the loop
DirectOrNormalized(row, possibleNames) ==
  Bind([i \in 1..Len(possibleNames) |-> AliasMatch(row, possibleNames[i])], LAMBDA rounds :
    IF \A i \in 1..Len(rounds) : ~rounds[i].found THEN NotFound
    ELSE rounds[CHOOSE i \in 1..Len(rounds) :
                  rounds[i].found /\ \A j \in 1..(i - 1) : ~rounds[j].found])

\* the test of the second loop for one alias and one entry of keyMap: either
\* normalized text contains the other, and the value is non-empty
PartialHit(row, name, entry) ==
  /\ \/ includes(entry.normalized, Normalize(name))
     \/ includes(Normalize(name), entry.normalized)
  /\ NonEmpty(RowGet(row, entry.actualKey))

\* second loop of findColumnValue: for each alias, the entries of keyMap in
\* order; the first pair that passes the test ends both loops
PartialMatch(row, possibleNames) ==
  Bind(keyMapEntries(row), LAMBDA entries :
  Bind({ip \in (1..Len(possibleNames)) \X (1..Len(entries)) :
          PartialHit(row, possibleNames[ip[1]], entries[ip[2]])}, LAMBDA hits :
    IF hits = {} THEN NotFound
    ELSE Bind(CHOOSE ip \in hits :
                \A o \in hits : ip[1] < o[1] \/ (ip[1] = o[1] /\ ip[2] <= o[2]),
              LAMBDA ip : Found(RowGet(row, entries[ip[2]].actualKey)))))

findColumnValue(row, possibleNames) ==
  Bind(DirectOrNormalized(row, possibleNames), LAMBDA first :
    IF first.found THEN first.val
    ELSE PartialMatch(row, possibleNames).val)

-----------------------------------------------------------------------------
(* Numbers                                                                 *)

\* the number a sequence of digits writes
DigitsValue(ds) ==
  LET v[i \in 0..Len(ds)] ==
        IF i = 0 THEN 0 ELSE 10 * v[i - 1] + (IndexOf(ds[i], DigitChars) - 1)
  IN  v[Len(ds)]

\* number of digits of s starting at position from
DigitRun(s, from) ==
  CHOOSE k \in 0..Len(s) :
    /\ from + k - 1 <= Len(s)
    /\ \A j \in from..(from + k - 1) : IsDigit(s[j])
    /\ (from + k > Len(s) \/ ~IsDigit(s[from + k]))

\* parseFloat of a string: leading white space, an optional sign, digits,
\* an optional fraction (of which two digits are kept); NaN without a digit.
\* Exponents and "Infinity" are not modelled.
parseFloatChars(s) ==
  Bind(CHOOSE k \in 0..Len(s) :
         (\A j \in 1..k : IsSpace(s[j])) /\ (k = Len(s) \/ ~IsSpace(s[k + 1])),
       LAMBDA ws :
  Bind(SubSeq(s, ws + 1, Len(s)), LAMBDA t :
  Bind(IF Len(t) > 0 /\ t[1] \in {"-", "+"} THEN 2 ELSE 1, LAMBDA start :
  Bind(DigitRun(t, start), LAMBDA il :
  Bind(IF start + il <= Len(t) /\ t[start + il] = "."
       THEN DigitRun(t, start + il + 1) ELSE 0, LAMBDA fl :
  Bind(SubSeq(t, start + il + 1, start + il + (IF fl > 2 THEN 2 ELSE fl)), LAMBDA fd :
  Bind(100 * DigitsValue(SubSeq(t, start, start + il - 1))
         + (IF Len(fd) = 1 THEN 10 * DigitsValue(fd) ELSE DigitsValue(fd)),
       LAMBDA mag :
    IF il = 0 /\ fl = 0 THEN NaN
    ELSE Num(IF start = 2 /\ t[1] = "-" THEN 0 - mag ELSE mag))))))))

\* parseFloat(v): a number argument is converted to its string form first
parseFloat(v) ==
  IF v.t = "nan" THEN NaN ELSE parseFloatChars(JSString(v))

\* String(v) without the replace
StripNothing(s) ==
  s

\* String(v).replace(/[^0-9.-]/g, '')
StripNonNumeric(s) ==
  SelectSeq(s, LAMBDA c : IsDigit(c) \/ c = "." \/ c = "-")

\* ToNumber of a string, as applied to the arguments of new Date(y, m, d):
\* trimmed digits give their value, the empty string gives 0, anything
\* else NaN
ToNumber(s) ==
  LET t == trim(s)
  IN  IF \A j \in 1..Len(t) : IsDigit(t[j]) THEN Num(100 * DigitsValue(t)) ELSE NaN

-----------------------------------------------------------------------------
(* Calendar                                                                *)

\* days since 1970-01-01 of the proleptic Gregorian date (y, m, d)
DaysFromCivil(y, m, d) ==
  LET yy == IF m <= 2 THEN y - 1 ELSE y
      era == yy \div 400
      yoe == yy - era * 400
      mp == IF m > 2 THEN m - 3 ELSE m + 9
      doy == ((153 * mp + 2) \div 5) + d - 1
      doe == yoe * 365 + (yoe \div 4) - (yoe \div 100) + doy
  IN  era * 146097 + doe - 719468

CivilFromDays(z0) ==
  Bind(z0 + 719468, LAMBDA z :
  Bind(z \div 146097, LAMBDA era :
  Bind(z - era * 146097, LAMBDA doe :
  Bind((doe - (doe \div 1460) + (doe \div 36524) - (doe \div 146096)) \div 365, LAMBDA yoe :
  Bind(doe - (365 * yoe + (yoe \div 4) - (yoe \div 100)), LAMBDA doy :
  Bind((5 * doy + 2) \div 153, LAMBDA mp :
  Bind(IF mp < 10 THEN mp + 3 ELSE mp - 9, LAMBDA m :
    [y |-> yoe + era * 400 + (IF m <= 2 THEN 1 ELSE 0),
     m |-> m,
     d |-> doy - ((153 * mp + 2) \div 5) + 1])))))))

MinutesPerDay == 1440

\* a Date is its time value in minutes since the epoch, or invalid
InvalidDate == [valid |-> FALSE, t |-> 0]
ValidDate(t) == [valid |-> TRUE, t |-> t]

\* new Date(year, monthIndex, day): local time, years 0..99 mean 1900..1999,
\* out-of-range months and days carry over
DateFromFields(year, monthIndex, day, zone) ==
  IF year.t = "nan" \/ monthIndex.t = "nan" \/ day.t = "nan" THEN InvalidDate
  ELSE LET y0 == year.n \div 100
           y1 == IF y0 >= 0 /\ y0 <= 99 THEN 1900 + y0 ELSE y0
           mi == monthIndex.n \div 100
           y == y1 + (mi \div 12)
           m == (mi % 12) + 1
           days == DaysFromCivil(y, m, 1) + (day.n \div 100) - 1
       IN  ValidDate(days * MinutesPerDay - zone)

\* the fields of s when s is digits, sep, digits, sep, digits with one
\* separator character used twice; << >> otherwise
DateFields(s) ==
  Bind(DigitRun(s, 1), LAMBDA n1 :
  Bind(IF n1 + 1 < Len(s) THEN DigitRun(s, n1 + 2) ELSE 0, LAMBDA n2 :
  Bind(n1 + n2 + 2, LAMBDA p2 :
  Bind(IF p2 < Len(s) THEN DigitRun(s, p2 + 1) ELSE 0, LAMBDA n3 :
    IF /\ n1 > 0 /\ n2 > 0 /\ n3 > 0
       /\ p2 + n3 = Len(s)
       /\ s[n1 + 1] \in {"-", "/"}
       /\ s[p2] = s[n1 + 1]
    THEN <<[len |-> n1, val |-> DigitsValue(SubSeq(s, 1, n1))],
           [len |-> n2, val |-> DigitsValue(SubSeq(s, n1 + 2, n1 + 1 + n2))],
           [len |-> n3, val |-> DigitsValue(SubSeq(s, p2 + 1, p2 + n3))],
           s[n1 + 1]>>
    ELSE << >>))))

\* new Date(dateStr) of the JavaScript engine, for the strings of the model:
\*   YYYY-MM-DD          the ISO form, read as UTC midnight;
\*   N-N-YYYY, N/N/YYYY  the engine's legacy form, read month first in
\*                       local time, and invalid when the first number is
\*                       not a month;
\*   anything else       invalid.
DateFromString(s, zone) ==
  Bind(DateFields(s), LAMBDA f :
    IF f = << >> THEN InvalidDate
    ELSE IF f[1].len = 4 /\ f[2].len = 2 /\ f[3].len = 2 /\ f[4] = "-"
    THEN IF f[2].val \in 1..12 /\ f[3].val \in 1..31
         THEN ValidDate((DaysFromCivil(f[1].val, f[2].val, 1) + f[3].val - 1) * MinutesPerDay)
         ELSE InvalidDate
    ELSE IF f[1].len <= 2 /\ f[2].len <= 2 /\ f[3].len = 4
    THEN IF f[1].val \in 1..12 /\ f[2].val \in 1..31
         THEN ValidDate((DaysFromCivil(f[3].val, f[1].val, 1) + f[2].val - 1) * MinutesPerDay - zone)
         ELSE InvalidDate
    ELSE InvalidDate)

\* getFullYear(), getMonth() + 1, getDate(): local time
LocalFields(date, zone) ==
  CivilFromDays((date.t + zone) \div MinutesPerDay)

\* toISOString().split('T')[0]: UTC
IsoDate(date) ==
  CivilFromDays(date.t \div MinutesPerDay)

\* dateStr.split(/[-\/]/)
split(s) ==
  LET seps == SelectSeq([i \in 1..Len(s) |-> i], LAMBDA i : s[i] \in {"-", "/"})
      from(j) == IF j = 1 THEN 1 ELSE seps[j - 1] + 1
      to(j) == IF j > Len(seps) THEN Len(s) ELSE seps[j] - 1
  IN  [j \in 1..(Len(seps) + 1) |-> SubSeq(s, from(j), to(j))]

MaxSerial == 2958465

\* XLSX.SSF.parse_date_code(v) of the spreadsheet library, 1900 date system:
\* serial 60 is the 29th of February 1900 that the format invents, the
\* serials after it are shifted by one day; null out of range
parse_date_code(v) ==
  Bind(v \div 100, LAMBDA date :
    IF date > MaxSerial \/ v < 0 THEN Null
    ELSE IF date = 60 THEN [t |-> "ymd", y |-> 1900, m |-> 2, d |-> 29]
    ELSE IF date = 0 THEN [t |-> "ymd", y |-> 1900, m |-> 1, d |-> 0]
    ELSE Bind(CivilFromDays(DaysFromCivil(1900, 1, 1) + (IF date > 60 THEN date - 1 ELSE date) - 1),
              LAMBDA c : [t |-> "ymd", y |-> c.y, m |-> c.m, d |-> c.d]))

\* a stored shipment_date YYYY-MM-DD and month_year YYYY-MM, kept as their
\* fields
DateText(y, m, d) == [t |-> "date", y |-> y, m |-> m, d |-> d]
MonthText(y, m) == [t |-> "month", y |-> y, m |-> m]

\* let shipmentDate = null, monthYear = null
NoDate == [shipmentDate |-> Null, monthYear |-> Null]

\* the date parsing of one row: shipmentDate and monthYear
ParseDate(dateValue, zone) ==
  IF ~Truthy(dateValue) THEN NoDate
  ELSE IF dateValue.t = "num"
  THEN Bind(parse_date_code(dateValue.n), LAMBDA date :
         IF date.t = "null" THEN NoDate
         ELSE [shipmentDate |-> DateText(date.y, date.m, date.d),
               monthYear |-> MonthText(date.y, date.m)])
  ELSE Bind(JSString(dateValue), LAMBDA dateStr :
       Bind(DateFromString(dateStr, zone), LAMBDA direct :
       Bind(split(dateStr), LAMBDA parts :
       Bind(IF ~direct.valid /\ Len(parts) = 3
            THEN Bind(ToNumber(parts[2]), LAMBDA mon :
                   DateFromFields(ToNumber(parts[3]),
                                  IF mon.t = "nan" THEN NaN ELSE Num(mon.n - 100),
                                  ToNumber(parts[1]), zone))
            ELSE direct, LAMBDA parsed :
       Bind(LocalFields(parsed, zone), LAMBDA loc :
       Bind(IsoDate(parsed), LAMBDA iso :
         IF parsed.valid /\ loc.y > 1900
         THEN [shipmentDate |-> DateText(iso.y, iso.m, iso.d),
               monthYear |-> MonthText(loc.y, loc.m)]
         ELSE NoDate))))))

-----------------------------------------------------------------------------
(* Buffer.from(composite).toString('base64'), for ASCII text; the double   *)
(* quote, the backslash and the backtick are left out of the table.        *)

Ascii ==
  <<" ","!","QUOTE","#","$","%","&","'","(",")","*","+",",","-",".","/",
    "0","1","2","3","4","5","6","7","8","9",":",";","<","=",">","?",
    "@","A","B","C","D","E","F","G","H","I","J","K","L","M","N","O",
    "P","Q","R","S","T","U","V","W","X","Y","Z","[","BACKSLASH","]","^","_",
    "BACKTICK","a","b","c","d","e","f","g","h","i","j","k","l","m","n","o",
    "p","q","r","s","t","u","v","w","x","y","z","{","|","}","~">>

CharCode(c) ==
  IndexOf(c, Ascii) + 31

Base64Chars ==
  <<"A","B","C","D","E","F","G","H","I","J","K","L","M",
    "N","O","P","Q","R","S","T","U","V","W","X","Y","Z",
    "a","b","c","d","e","f","g","h","i","j","k","l","m",
    "n","o","p","q","r","s","t","u","v","w","x","y","z">>
      \o DigitChars \o <<"+", "/">>

\* three bytes give four characters; a last group of one or two bytes is
\* padded with "="
base64(s) ==
  LET byte(i) == IF i <= Len(s) THEN CharCode(s[i]) ELSE 0
      group(j) == byte(3 * j + 1) * 65536 + byte(3 * j + 2) * 256 + byte(3 * j + 3)
      sextet(j, c) == (group(j) \div (64^(3 - c))) % 64
      groups == (Len(s) + 2) \div 3
  IN  [k \in 1..(4 * groups) |->
         LET j == (k - 1) \div 4
             c == (k - 1) % 4
         IN  IF 3 * j + c > Len(s) THEN "=" ELSE Base64Chars[sextet(j, c) + 1]]

\* s.slice(0, n)
slice0(s, n) ==
  SubSeq(s, 1, IF Len(s) < n THEN Len(s) ELSE n)

-----------------------------------------------------------------------------
(* Alias lists of the two variants                                         *)

declarationIdNamesServer ==
  << <<"D","e","c","l","a","r","a","t","i","o","n"," ","I","D">>,
     <<"D","E","C","L","A","R","A","T","I","O","N","_","I","D">>,
     <<"d","e","c","l","a","r","a","t","i","o","n","_","i","d">>,
     <<"D","e","c"," ","I","D">>,
     <<"D","e","c","l","a","r","a","t","i","o","n"," ","N","o">>,
     <<"D","E","C","L","A","R","A","T","I","O","N","_","N","O">>,
     <<"d","e","c","l","a","r","a","t","i","o","n","_","n","o">>,
     <<"D","e","c","l","a","r","a","t","i","o","n","_","N","o">>,
     <<"D","e","c","l","a","r","a","t","i","o","n","N","o">>,
     <<"D","E","C","L","A","R","A","T","I","O","N","N","O">>,
     <<"D","e","c"," ","N","o">>,
     <<"D","E","C","_","N","O">>,
     <<"D","e","c","N","o">>,
     <<"S","B"," ","N","o">>,
     <<"S","B","_","N","o">>,
     <<"S","B"," ","N","O">>,
     <<"S","B","_","N","O">>,
     <<"S","B","N","O">>,
     <<"S","b"," ","N","o">>,
     <<"S","h","i","p","p","i","n","g"," ","B","i","l","l"," ","N","o">>,
     <<"S","H","I","P","P","I","N","G","_","B","I","L","L","_","N","O">>,
     <<"S","h","i","p","p","i","n","g"," ","B","i","l","l"," ","N","u","m","b","e","r">>,
     <<"B","i","l","l"," ","N","o">>,
     <<"B","I","L","L","_","N","O">>,
     <<"B","i","l","l"," ","N","u","m","b","e","r">>,
     <<"R","e","f","e","r","e","n","c","e"," ","N","o">>,
     <<"R","e","f"," ","N","o">>,
     <<"I","n","v","o","i","c","e"," ","N","o">>,
     <<"I","N","V","O","I","C","E","_","N","O">>,
     <<"I","n","v","o","i","c","e"," ","N","u","m","b","e","r">>,
     <<"I","D">>,
     <<"S","r"," ","N","o">>,
     <<"S","r","N","o">>,
     <<"S",".","N","o">>,
     <<"S","N","O">>,
     <<"R","e","c","o","r","d"," ","I","D">>,
     <<"R","E","C","O","R","D","_","I","D">>,
     <<"U","n","i","q","u","e"," ","I","D">> >>

exporterNamesServer ==
  << <<"E","x","p","o","r","t","e","r"," ","N","a","m","e">>,
     <<"E","X","P","O","R","T","E","R","_","N","A","M","E">>,
     <<"e","x","p","o","r","t","e","r","_","n","a","m","e">>,
     <<"E","x","p","o","r","t","e","r">>,
     <<"E","X","P","O","R","T","E","R">>,
     <<"I","n","d","i","a","n"," ","E","x","p","o","r","t","e","r">>,
     <<"I","N","D","I","A","N","_","E","X","P","O","R","T","E","R">>,
     <<"S","h","i","p","p","e","r">>,
     <<"S","H","I","P","P","E","R">>,
     <<"S","h","i","p","p","e","r"," ","N","a","m","e">>,
     <<"S","e","l","l","e","r">>,
     <<"S","E","L","L","E","R">>,
     <<"S","e","l","l","e","r"," ","N","a","m","e">>,
     <<"C","o","m","p","a","n","y">>,
     <<"C","o","m","p","a","n","y"," ","N","a","m","e">>,
     <<"C","O","M","P","A","N","Y","_","N","A","M","E">>,
     <<"S","u","p","p","l","i","e","r">>,
     <<"S","U","P","P","L","I","E","R">> >>

consigneeNamesServer ==
  << <<"C","o","n","s","i","g","n","e","e"," ","N","a","m","e">>,
     <<"C","O","N","S","I","G","N","E","E","_","N","A","M","E">>,
     <<"c","o","n","s","i","g","n","e","e","_","n","a","m","e">>,
     <<"C","o","n","s","i","g","n","e","e">>,
     <<"C","O","N","S","I","G","N","E","E">>,
     <<"B","u","y","e","r">>,
     <<"B","U","Y","E","R">>,
     <<"B","u","y","e","r"," ","N","a","m","e">>,
     <<"B","U","Y","E","R","_","N","A","M","E">>,
     <<"F","o","r","e","i","g","n"," ","B","u","y","e","r">>,
     <<"F","O","R","E","I","G","N","_","B","U","Y","E","R">>,
     <<"I","m","p","o","r","t","e","r">>,
     <<"I","M","P","O","R","T","E","R">>,
     <<"I","m","p","o","r","t","e","r"," ","N","a","m","e">>,
     <<"C","u","s","t","o","m","e","r">>,
     <<"C","U","S","T","O","M","E","R">>,
     <<"C","u","s","t","o","m","e","r"," ","N","a","m","e">>,
     <<"C","o","n","s","i","n","e","e"," ","N","a","m","e">>,
     <<"C","O","N","S","I","N","E","E","_","N","A","M","E">>,
     <<"C","o","n","s","i","n","e","e">>,
     <<"C","O","N","S","I","N","E","E">> >>

productNamesServer ==
  << <<"P","r","o","d","u","c","t"," ","D","e","s","c","r","i","p","t","i","o","n">>,
     <<"P","R","O","D","U","C","T","_","D","E","S","C","R","I","P","T","I","O","N">>,
     <<"p","r","o","d","u","c","t","_","d","e","s","c","r","i","p","t","i","o","n">>,
     <<"P","r","o","d","u","c","t">>,
     <<"P","R","O","D","U","C","T">>,
     <<"I","t","e","m">>,
     <<"I","T","E","M">>,
     <<"I","t","e","m"," ","D","e","s","c","r","i","p","t","i","o","n">>,
     <<"I","T","E","M","_","D","E","S","C","R","I","P","T","I","O","N">>,
     <<"D","e","s","c","r","i","p","t","i","o","n">>,
     <<"D","E","S","C","R","I","P","T","I","O","N">>,
     <<"G","o","o","d","s">>,
     <<"G","O","O","D","S">>,
     <<"G","o","o","d","s"," ","D","e","s","c","r","i","p","t","i","o","n">>,
     <<"G","O","O","D","S","_","D","E","S","C","R","I","P","T","I","O","N">>,
     <<"G","o","o","d","s","_","D","e","s","c","r","i","p","t","i","o","n">>,
     <<"P","r","o","d","u","c","t"," ","N","a","m","e">>,
     <<"P","R","O","D","U","C","T","_","N","A","M","E">>,
     <<"C","o","m","m","o","d","i","t","y">>,
     <<"C","O","M","M","O","D","I","T","Y">>,
     <<"H","S"," ","D","e","s","c","r","i","p","t","i","o","n">>,
     <<"I","t","e","m"," ","N","a","m","e">>,
     <<"I","t","e","m","D","e","s","c","r","i","p","t","i","o","n">> >>

hsCodeNamesServer ==
  << <<"H","S"," ","C","o","d","e">>,
     <<"H","S","_","C","O","D","E">>,
     <<"h","s","_","c","o","d","e">>,
     <<"H","S","C","o","d","e">>,
     <<"H","S","C","O","D","E">>,
     <<"H","S">>,
     <<"I","T","C"," ","C","o","d","e">>,
     <<"I","T","C","_","C","O","D","E">>,
     <<"I","T","C","C","o","d","e">>,
     <<"I","T","C"," ","H","S">>,
     <<"I","T","C","_","H","S">>,
     <<"T","a","r","i","f","f"," ","C","o","d","e">>,
     <<"T","A","R","I","F","F","_","C","O","D","E">>,
     <<"C","h","a","p","t","e","r">>,
     <<"C","H","A","P","T","E","R">> >>

quantityNamesServer ==
  << <<"Q","u","a","n","t","i","t","y">>,
     <<"Q","U","A","N","T","I","T","Y">>,
     <<"q","u","a","n","t","i","t","y">>,
     <<"Q","t","y">>,
     <<"Q","T","Y">>,
     <<"q","t","y">>,
     <<"U","n","i","t"," ","Q","u","a","n","t","i","t","y">>,
     <<"U","N","I","T","_","Q","U","A","N","T","I","T","Y">>,
     <<"N","e","t"," ","Q","u","a","n","t","i","t","y">>,
     <<"N","E","T","_","Q","U","A","N","T","I","T","Y">>,
     <<"W","e","i","g","h","t">>,
     <<"W","E","I","G","H","T">>,
     <<"N","e","t"," ","W","e","i","g","h","t">>,
     <<"N","E","T","_","W","E","I","G","H","T">>,
     <<"G","r","o","s","s"," ","W","e","i","g","h","t">> >>

unitNamesServer ==
  << <<"U","n","i","t">>,
     <<"U","N","I","T">>,
     <<"u","n","i","t">>,
     <<"U","Q","C">>,
     <<"U","O","M">>,
     <<"U","n","i","t"," ","o","f"," ","M","e","a","s","u","r","e">>,
     <<"U","N","I","T","_","O","F","_","M","E","A","S","U","R","E">>,
     <<"Q","u","a","n","t","i","t","y"," ","U","n","i","t">>,
     <<"Q","U","A","N","T","I","T","Y","_","U","N","I","T">> >>

fobNamesServer ==
  << <<"F","O","B"," ","V","a","l","u","e">>,
     <<"F","O","B","_","V","A","L","U","E">>,
     <<"f","o","b","_","v","a","l","u","e">>,
     <<"F","O","B">>,
     <<"F","o","b">>,
     <<"F","O","B"," ","U","S","D">>,
     <<"F","O","B","_","U","S","D">>,
     <<"F","o","b"," ","U","s","d">>,
     <<"F","O","B"," ","U","s","d">>,
     <<"F","o","b"," ","U","S","D">>,
     <<"F","O","B"," ","I","N","R">>,
     <<"F","O","B","_","I","N","R">>,
     <<"F","o","b"," ","I","n","r">>,
     <<"V","a","l","u","e">>,
     <<"V","A","L","U","E">>,
     <<"I","n","v","o","i","c","e"," ","V","a","l","u","e">>,
     <<"I","N","V","O","I","C","E","_","V","A","L","U","E">>,
     <<"T","o","t","a","l"," ","V","a","l","u","e">>,
     <<"T","O","T","A","L","_","V","A","L","U","E">>,
     <<"A","m","o","u","n","t">>,
     <<"A","M","O","U","N","T">>,
     <<"P","r","i","c","e">>,
     <<"P","R","I","C","E">>,
     <<"V","a","l","u","e"," ","U","S","D">>,
     <<"V","a","l","u","e"," ","I","N","R">>,
     <<"F","O","B"," ","(","U","S","D",")">>,
     <<"F","O","B"," ","(","I","N","R",")">> >>

currencyNamesServer ==
  << <<"C","u","r","r","e","n","c","y">>,
     <<"C","U","R","R","E","N","C","Y">>,
     <<"c","u","r","r","e","n","c","y">>,
     <<"C","u","r","r">>,
     <<"C","U","R","R">>,
     <<"C","u","r","r","e","n","c","y"," ","C","o","d","e">>,
     <<"C","U","R","R","E","N","C","Y","_","C","O","D","E">> >>

portLoadingNamesServer ==
  << <<"P","o","r","t"," ","o","f"," ","L","o","a","d","i","n","g">>,
     <<"P","O","R","T","_","O","F","_","L","O","A","D","I","N","G">>,
     <<"p","o","r","t","_","o","f","_","l","o","a","d","i","n","g">>,
     <<"I","n","d","i","a","n"," ","P","o","r","t">>,
     <<"I","N","D","I","A","N","_","P","O","R","T">>,
     <<"L","o","a","d","i","n","g"," ","P","o","r","t">>,
     <<"L","O","A","D","I","N","G","_","P","O","R","T">>,
     <<"P","o","r","t">>,
     <<"P","O","R","T">>,
     <<"O","r","i","g","i","n"," ","P","o","r","t">>,
     <<"O","R","I","G","I","N","_","P","O","R","T">>,
     <<"F","r","o","m"," ","P","o","r","t">>,
     <<"D","e","p","a","r","t","u","r","e"," ","P","o","r","t">>,
     <<"D","E","P","A","R","T","U","R","E","_","P","O","R","T">>,
     <<"P","O","L">>,
     <<"P","o","r","t"," ","C","o","d","e">> >>

portDischargeNamesServer ==
  << <<"P","o","r","t"," ","o","f"," ","D","i","s","c","h","a","r","g","e">>,
     <<"P","O","R","T","_","O","F","_","D","I","S","C","H","A","R","G","E">>,
     <<"p","o","r","t","_","o","f","_","d","i","s","c","h","a","r","g","e">>,
     <<"F","o","r","e","i","g","n"," ","P","o","r","t">>,
     <<"F","O","R","E","I","G","N","_","P","O","R","T">>,
     <<"D","i","s","c","h","a","r","g","e"," ","P","o","r","t">>,
     <<"D","I","S","C","H","A","R","G","E","_","P","O","R","T">>,
     <<"D","e","s","t","i","n","a","t","i","o","n"," ","P","o","r","t">>,
     <<"D","E","S","T","I","N","A","T","I","O","N","_","P","O","R","T">>,
     <<"T","o"," ","P","o","r","t">>,
     <<"P","O","D">>,
     <<"A","r","r","i","v","a","l"," ","P","o","r","t">>,
     <<"A","R","R","I","V","A","L","_","P","O","R","T">>,
     <<"F","i","n","a","l"," ","P","o","r","t">> >>

countryNamesServer ==
  << <<"C","o","u","n","t","r","y">>,
     <<"C","O","U","N","T","R","Y">>,
     <<"c","o","u","n","t","r","y">>,
     <<"D","e","s","t","i","n","a","t","i","o","n"," ","C","o","u","n","t","r","y">>,
     <<"D","E","S","T","I","N","A","T","I","O","N","_","C","O","U","N","T","R","Y">>,
     <<"C","o","u","n","t","r","y"," ","o","f"," ","D","e","s","t","i","n","a","t","i","o","n">>,
     <<"C","O","U","N","T","R","Y","_","O","F","_","D","E","S","T","I","N","A","T","I","O","N">>,
     <<"D","e","s","t","i","n","a","t","i","o","n">>,
     <<"D","E","S","T","I","N","A","T","I","O","N">>,
     <<"F","o","r","e","i","g","n"," ","C","o","u","n","t","r","y">>,
     <<"F","O","R","E","I","G","N","_","C","O","U","N","T","R","Y">>,
     <<"I","m","p","o","r","t","i","n","g"," ","C","o","u","n","t","r","y">>,
     <<"I","M","P","O","R","T","I","N","G","_","C","O","U","N","T","R","Y">>,
     <<"T","o"," ","C","o","u","n","t","r","y">> >>

dateNamesServer ==
  << <<"S","h","i","p","m","e","n","t"," ","D","a","t","e">>,
     <<"S","H","I","P","M","E","N","T","_","D","A","T","E">>,
     <<"s","h","i","p","m","e","n","t","_","d","a","t","e">>,
     <<"D","a","t","e">>,
     <<"D","A","T","E">>,
     <<"S","B"," ","D","a","t","e">>,
     <<"S","B","_","D","A","T","E">>,
     <<"S","h","i","p","p","i","n","g"," ","D","a","t","e">>,
     <<"S","H","I","P","P","I","N","G","_","D","A","T","E">>,
     <<"B","i","l","l"," ","D","a","t","e">>,
     <<"B","I","L","L","_","D","A","T","E">>,
     <<"E","x","p","o","r","t"," ","D","a","t","e">>,
     <<"E","X","P","O","R","T","_","D","A","T","E">>,
     <<"I","n","v","o","i","c","e"," ","D","a","t","e">>,
     <<"I","N","V","O","I","C","E","_","D","A","T","E">>,
     <<"D","i","s","p","a","t","c","h"," ","D","a","t","e">>,
     <<"D","I","S","P","A","T","C","H","_","D","A","T","E">> >>

declarationIdNamesApi ==
  << <<"D","e","c","l","a","r","a","t","i","o","n"," ","I","D">>,
     <<"D","E","C","L","A","R","A","T","I","O","N","_","I","D">>,
     <<"D","e","c","l","a","r","a","t","i","o","n"," ","N","o">>,
     <<"S","B"," ","N","o">>,
     <<"S","h","i","p","p","i","n","g"," ","B","i","l","l"," ","N","o">>,
     <<"B","i","l","l"," ","N","o">>,
     <<"I","n","v","o","i","c","e"," ","N","o">> >>

exporterNamesApi ==
  << <<"E","x","p","o","r","t","e","r"," ","N","a","m","e">>,
     <<"E","X","P","O","R","T","E","R","_","N","A","M","E">>,
     <<"E","x","p","o","r","t","e","r">>,
     <<"S","h","i","p","p","e","r">>,
     <<"S","e","l","l","e","r">>,
     <<"C","o","m","p","a","n","y"," ","N","a","m","e">> >>

consigneeNamesApi ==
  << <<"C","o","n","s","i","g","n","e","e"," ","N","a","m","e">>,
     <<"C","O","N","S","I","G","N","E","E","_","N","A","M","E">>,
     <<"C","o","n","s","i","g","n","e","e">>,
     <<"B","u","y","e","r">>,
     <<"I","m","p","o","r","t","e","r">>,
     <<"C","u","s","t","o","m","e","r">>,
     <<"C","o","n","s","i","n","e","e"," ","N","a","m","e">> >>

productNamesApi ==
  << <<"P","r","o","d","u","c","t"," ","D","e","s","c","r","i","p","t","i","o","n">>,
     <<"P","R","O","D","U","C","T","_","D","E","S","C","R","I","P","T","I","O","N">>,
     <<"P","r","o","d","u","c","t">>,
     <<"D","e","s","c","r","i","p","t","i","o","n">>,
     <<"G","o","o","d","s"," ","D","e","s","c","r","i","p","t","i","o","n">>,
     <<"I","t","e","m"," ","D","e","s","c","r","i","p","t","i","o","n">> >>

hsCodeNamesApi ==
  << <<"H","S"," ","C","o","d","e">>,
     <<"H","S","_","C","O","D","E">>,
     <<"H","S","C","o","d","e">>,
     <<"I","T","C"," ","C","o","d","e">>,
     <<"T","a","r","i","f","f"," ","C","o","d","e">> >>

quantityNamesApi ==
  << <<"Q","u","a","n","t","i","t","y">>,
     <<"Q","U","A","N","T","I","T","Y">>,
     <<"Q","t","y">>,
     <<"N","e","t"," ","Q","u","a","n","t","i","t","y">>,
     <<"W","e","i","g","h","t">> >>

unitNamesApi ==
  << <<"U","n","i","t">>,
     <<"U","N","I","T">>,
     <<"U","Q","C">>,
     <<"U","O","M">> >>

fobNamesApi ==
  << <<"F","O","B"," ","V","a","l","u","e">>,
     <<"F","O","B","_","V","A","L","U","E">>,
     <<"F","O","B">>,
     <<"F","O","B"," ","U","S","D">>,
     <<"F","o","b"," ","U","s","d">>,
     <<"V","a","l","u","e">>,
     <<"A","m","o","u","n","t">> >>

currencyNamesApi ==
  << <<"C","u","r","r","e","n","c","y">>,
     <<"C","U","R","R","E","N","C","Y">> >>

portLoadingNamesApi ==
  << <<"P","o","r","t"," ","o","f"," ","L","o","a","d","i","n","g">>,
     <<"P","O","R","T","_","O","F","_","L","O","A","D","I","N","G">>,
     <<"I","n","d","i","a","n"," ","P","o","r","t">>,
     <<"L","o","a","d","i","n","g"," ","P","o","r","t">>,
     <<"P","O","L">> >>

portDischargeNamesApi ==
  << <<"P","o","r","t"," ","o","f"," ","D","i","s","c","h","a","r","g","e">>,
     <<"P","O","R","T","_","O","F","_","D","I","S","C","H","A","R","G","E">>,
     <<"F","o","r","e","i","g","n"," ","P","o","r","t">>,
     <<"D","i","s","c","h","a","r","g","e"," ","P","o","r","t">>,
     <<"P","O","D">> >>

countryNamesApi ==
  << <<"C","o","u","n","t","r","y">>,
     <<"C","O","U","N","T","R","Y">>,
     <<"D","e","s","t","i","n","a","t","i","o","n"," ","C","o","u","n","t","r","y">>,
     <<"C","o","u","n","t","r","y"," ","o","f"," ","D","e","s","t","i","n","a","t","i","o","n">>,
     <<"D","e","s","t","i","n","a","t","i","o","n">> >>

dateNamesApi ==
  << <<"S","h","i","p","m","e","n","t"," ","D","a","t","e">>,
     <<"S","H","I","P","M","E","N","T","_","D","A","T","E">>,
     <<"D","a","t","e">>,
     <<"S","B"," ","D","a","t","e">>,
     <<"B","i","l","l"," ","D","a","t","e">>,
     <<"E","x","p","o","r","t"," ","D","a","t","e">> >>

\* the alias lists of one variant, by local variable of the row loop
Aliases(variant) ==
  IF variant = "server"
  THEN [declarationId |-> declarationIdNamesServer, exporterName |-> exporterNamesServer,
        consigneeName |-> consigneeNamesServer, productDesc |-> productNamesServer,
        hsCode |-> hsCodeNamesServer, quantity |-> quantityNamesServer,
        unit |-> unitNamesServer, fobValue |-> fobNamesServer,
        fobCurrency |-> currencyNamesServer, portLoading |-> portLoadingNamesServer,
        portDischarge |-> portDischargeNamesServer, countryDest |-> countryNamesServer,
        dateValue |-> dateNamesServer]
  ELSE [declarationId |-> declarationIdNamesApi, exporterName |-> exporterNamesApi,
        consigneeName |-> consigneeNamesApi, productDesc |-> productNamesApi,
        hsCode |-> hsCodeNamesApi, quantity |-> quantityNamesApi,
        unit |-> unitNamesApi, fobValue |-> fobNamesApi,
        fobCurrency |-> currencyNamesApi, portLoading |-> portLoadingNamesApi,
        portDischarge |-> portDischargeNamesApi, countryDest |-> countryNamesApi,
        dateValue |-> dateNamesApi]

-----------------------------------------------------------------------------
(* One iteration of the row loop, up to the insert                         *)

KGS == <<"K","G","S">>
USD == <<"U","S","D">>
Dash == <<"-">>

\* the local constants of one iteration: the resolved and coerced fields
RowLocals(row, variant, zone) ==
  Bind(Aliases(variant), LAMBDA a :
  Bind([k \in DOMAIN a |-> findColumnValue(row, a[k])], LAMBDA v :
  Bind(ParseDate(v.dateValue, zone), LAMBDA parsed :
    [declarationId |-> v.declarationId,
     exporterName |-> v.exporterName,
     consigneeName |-> v.consigneeName,
     productDesc |-> v.productDesc,
     hsCode |-> v.hsCode,
     quantity |-> parseFloat(OrElse(v.quantity, Num(0))),
     unit |-> OrElse(v.unit, Str(KGS)),
     fobValue |-> OrElse(parseFloat(Str(StripNonNumeric(JSString(OrElse(v.fobValue, Num(0)))))),
                         Num(0)),
     fobCurrency |-> OrElse(v.fobCurrency, Str(USD)),
     portLoading |-> v.portLoading,
     portDischarge |-> v.portDischarge,
     countryDest |-> v.countryDest,
     dateValue |-> v.dateValue,
     shipmentDate |-> parsed.shipmentDate,
     monthYear |-> parsed.monthYear])))

\* `${exporterName}-${consigneeName}-${productDesc}-${dateValue}-${fobValue}`
composite(f) ==
  JSString(f.exporterName) \o Dash \o JSString(f.consigneeName) \o Dash
    \o JSString(f.productDesc) \o Dash \o JSString(f.dateValue) \o Dash
    \o JSString(f.fobValue)

DegenerateComposite == <<"-","-","-","-","0">>

\* uniqueId after the synthesis step; random is the text that
\* Math.random().toString(36).slice(2, 8) produced
uniqueId(f, random) ==
  IF Truthy(f.declarationId) THEN f.declarationId
  ELSE IF composite(f) # DegenerateComposite
  THEN Str(<<"A","U","T","O","-">> \o slice0(base64(composite(f)), 20) \o Dash \o random)
  ELSE f.declarationId

\* x.toString().trim() of a string or a number
TrimText(v) ==
  trim(JSString(v))

\* the argument list with the resolved values as they are, neither trimmed
\* nor upper-cased
InsertArgsAsResolved(f, id, dataType) ==
  [declaration_id |-> JSString(id),
   exporter_name |-> JSString(OrElse(f.exporterName, EmptyStr)),
   consignee_name |-> JSString(OrElse(f.consigneeName, EmptyStr)),
   product_description |-> JSString(OrElse(f.productDesc, EmptyStr)),
   product_category |-> dataType,
   data_type |-> dataType,
   hs_code |-> JSString(OrElse(f.hsCode, EmptyStr)),
   quantity |-> OrElse(f.quantity, Num(0)).n,
   unit |-> JSString(OrElse(f.unit, Str(KGS))),
   fob_value |-> OrElse(f.fobValue, Num(0)).n,
   fob_currency |-> JSString(OrElse(f.fobCurrency, Str(USD))),
   port_of_loading |-> JSString(OrElse(f.portLoading, EmptyStr)),
   port_of_discharge |-> JSString(OrElse(f.portDischarge, EmptyStr)),
   country_of_destination |-> JSString(OrElse(f.countryDest, EmptyStr)),
   shipment_date |-> f.shipmentDate,
   month_year |-> f.monthYear]

\* the argument list of the INSERT, by column
InsertArgs(f, id, dataType) ==
  [declaration_id |-> TrimText(id),
   exporter_name |-> toUpperCase(TrimText(OrElse(f.exporterName, EmptyStr))),
   consignee_name |-> toUpperCase(TrimText(OrElse(f.consigneeName, EmptyStr))),
   product_description |-> TrimText(OrElse(f.productDesc, EmptyStr)),
   product_category |-> dataType,
   data_type |-> dataType,
   hs_code |-> TrimText(OrElse(f.hsCode, EmptyStr)),
   quantity |-> OrElse(f.quantity, Num(0)).n,
   unit |-> TrimText(OrElse(f.unit, Str(KGS))),
   fob_value |-> OrElse(f.fobValue, Num(0)).n,
   fob_currency |-> TrimText(OrElse(f.fobCurrency, Str(USD))),
   port_of_loading |-> TrimText(OrElse(f.portLoading, EmptyStr)),
   port_of_discharge |-> TrimText(OrElse(f.portDischarge, EmptyStr)),
   country_of_destination |-> TrimText(OrElse(f.countryDest, EmptyStr)),
   shipment_date |-> f.shipmentDate,
   month_year |-> f.monthYear]

-----------------------------------------------------------------------------
(* The sheets of the model                                                 *)

H_SBNo == <<"S","B"," ","N","o">>
H_Product == <<"P","r","o","d","u","c","t">>
H_Date == <<"D","a","t","e">>
H_Qty == <<"Q","t","y">>
H_Exporter == <<"E","x","p","o","r","t","e","r">>
H_Remarks == <<"R","e","m","a","r","k","s">>

T_Mango == <<"M","a","n","g","o">>
T_Acme == <<"A","c","m","e">>
T_abc == <<"a","b","c">>

Cell(k, v) == [k |-> k, v |-> v]

\* a natural declaration id, a date serial
RowDated ==
  <<Cell(H_SBNo, Num(10100)), Cell(H_Product, Str(T_Mango)), Cell(H_Date, Num(4531200))>>

\* a natural declaration id, a date cell that is no date
RowUndated ==
  <<Cell(H_SBNo, Num(10100)), Cell(H_Product, Str(T_Mango)), Cell(H_Date, Str(T_abc))>>

\* a natural declaration id, a number as product description, a quantity
\* cell that is no number
RowNumericProduct ==
  <<Cell(H_SBNo, Num(10200)), Cell(H_Product, Num(500)), Cell(H_Qty, Str(T_abc))>>

\* no declaration id, an exporter
RowNoId ==
  <<Cell(H_Exporter, Str(T_Acme))>>

\* no column that any alias matches
RowUnmatched ==
  <<Cell(H_Remarks, Str(T_abc))>>

\* the rows a sheet of the model is made of, by name
SheetRow ==
  [dated |-> RowDated, undated |-> RowUndated, numericProduct |-> RowNumericProduct,
   noId |-> RowNoId, unmatched |-> RowUnmatched]

SheetRows == DOMAIN SheetRow

MaxRows == 2

\* the non-empty sheets, XLSX.utils.sheet_to_json(worksheet): sequences of
\* names of rows
Sheets ==
  UNION {[1..n -> SheetRows] : n \in 1..MaxRows}

Variants == {"server", "api"}

\* ['fruits', 'vegetables'].includes(dataType)
ValidTypes == {"fruits", "vegetables"}

\* an upload request: req.file, req.body.dataType, and what XLSX.read and
\* sheet_to_json make of the file (readable: XLSX.read does not throw)
\* every sheet as fruits, and one sheet as vegetables too
GoodRequests ==
  [variant : Variants, hasFile : {TRUE}, dataType : {"fruits"},
   readable : {TRUE}, data : Sheets]
    \cup [variant : Variants, hasFile : {TRUE}, dataType : {"vegetables"},
          readable : {TRUE}, data : {<<"dated">>}]

BadRequests ==
  [variant : Variants, hasFile : {FALSE}, dataType : {"fruits"}, readable : {TRUE}, data : {<< >>}]
    \cup [variant : Variants, hasFile : {TRUE}, dataType : {"", "grains"},
          readable : {TRUE}, data : {<<"dated">>}]
    \cup [variant : Variants, hasFile : {TRUE}, dataType : {"fruits"},
          readable : {FALSE}, data : {<< >>}]
    \cup [variant : Variants, hasFile : {TRUE}, dataType : {"fruits"},
          readable : {TRUE}, data : {<< >>}]

Requests == GoodRequests \cup BadRequests

NoRequest == [variant |-> "none", hasFile |-> FALSE, dataType |-> "", readable |-> FALSE, data |-> << >>]

MaxRuns == 2
Runs == 1..MaxRuns

MaxFaults == 1

\* the outcomes of Math.random().toString(36).slice(2, 8) in the model
RandomSuffixes == {<<"a","1">>, <<"b","2">>}

\* the offsets of local time from UTC, in minutes
TimezoneOffsets == {0, 330}

\* what the row loop computes for a row before the insert, for every row of
\* the model, computed once: the locals, then the uniqueId and the INSERT
\* arguments
LocalsTable ==
  {[row |-> row, variant |-> v, zone |-> z, locals |-> RowLocals(SheetRow[row], v, z)] :
     row \in SheetRows, v \in Variants, z \in TimezoneOffsets}

IdTable ==
  {[row |-> e.row, variant |-> e.variant, zone |-> e.zone, random |-> x,
    locals |-> e.locals, id |-> uniqueId(e.locals, x)] :
     e \in LocalsTable, x \in RandomSuffixes}

RowTable ==
  {[row |-> e.row, variant |-> e.variant, zone |-> e.zone, random |-> e.random,
    dataType |-> d, locals |-> e.locals, id |-> e.id,
    args |-> InsertArgs(e.locals, e.id, d)] :
     e \in IdTable, d \in ValidTypes}

RowEntry(row, v, z, x, d) ==
  CHOOSE e \in RowTable :
    e.row = row /\ e.variant = v /\ e.zone = z /\ e.random = x /\ e.dataType = d

-----------------------------------------------------------------------------
(* State                                                                   *)

VARIABLES
  exports,        \* the rows of table exports, a bag of records
  idxUnique,      \* index idx_exports_unique exists in the database
  started,        \* the variants whose initDb has run
  tz,             \* offset of the process's local time
  faults,         \* storage failures injected so far
  req,            \* per run: the request
  pc,             \* per run: "idle", "loop" (suspended in the row loop), "done"
  progressCount,  \* per run: rows processed
  inserted, skipped, noIdCount,   \* per run: the counters
  res,            \* per run: the response
  outcome,        \* per run: what happened to each processed row
  doneAtStart,    \* per run: the runs that had been answered when it arrived
  uploadBatch,    \* per run: the upload batch tag
  rRow, rNames, rResult, rPc,     \* the resolver called on its own
  itRow, itVariant, itResult, itPc,   \* one iteration of the row loop on its own
  competitors, clients,  \* tables competitors and clients: rows in id order
  company_info,   \* table company_info: the company_name of its rows
  feedback,       \* number of rows of table feedback
  lastOp,         \* per table and stored name: the last request about it
  reply,          \* the response to the last request to another route
  now,            \* Date.now(), in milliseconds
  inFlight,       \* per run: the inserts issued and not yet completed
  initPc          \* per caller of the api variant: its place in the middleware

importVars ==
  <<exports, idxUnique, started, tz, faults, req, pc, progressCount,
    inserted, skipped, noIdCount, res, outcome, doneAtStart, uploadBatch>>

resolverVars == <<rRow, rNames, rResult, rPc>>

iterationVars == <<itRow, itVariant, itResult, itPc>>

routeVars == <<competitors, clients, company_info, feedback, lastOp, reply>>

\* the clock, and the places at which handlers wait
awaitVars == <<now, inFlight, initPc>>

\* what POST /api/upload leaves alone
otherVars == <<resolverVars, iterationVars, routeVars, awaitVars>>

vars == <<importVars, otherVars>>

-----------------------------------------------------------------------------
(* The database                                                            *)

\* two rows agree on the columns of idx_exports_unique
SameKey(a, b) ==
  /\ a.declaration_id = b.declaration_id
  /\ a.shipment_date = b.shipment_date
  /\ a.product_description = b.product_description
  /\ a.hs_code = b.hs_code
  /\ a.quantity = b.quantity
  /\ a.fob_value = b.fob_value

\* the unique index rejects rec: an SQL unique index never takes two rows
\* for equal when one of the indexed columns is NULL
UniqueViolation(table, rec, indexed) ==
  /\ indexed
  /\ rec.shipment_date.t # "null"
  /\ \E s \in BagToSet(table) : SameKey(s, rec)

\* CREATE UNIQUE INDEX fails on a table that already breaks it
BreaksUnique(table) ==
  \E a \in BagToSet(table) :
    /\ a.shipment_date.t # "null"
    /\ \/ CopiesIn(a, table) > 1
       \/ \E b \in BagToSet(table) : b # a /\ SameKey(a, b)

-----------------------------------------------------------------------------
(* Initial state                                                           *)

NoResponse == [status |-> 0]

\* no uploadBatch has been computed
NoBatch == [at |-> -1, dataType |-> ""]

ImportInit ==
  /\ exports = EmptyBag
  /\ idxUnique = FALSE
  /\ started = {}
  /\ tz \in TimezoneOffsets
  /\ faults = 0
  /\ req = [r \in Runs |-> NoRequest]
  /\ pc = [r \in Runs |-> "idle"]
  /\ progressCount = [r \in Runs |-> 0]
  /\ inserted = [r \in Runs |-> 0]
  /\ skipped = [r \in Runs |-> 0]
  /\ noIdCount = [r \in Runs |-> 0]
  /\ res = [r \in Runs |-> NoResponse]
  /\ outcome = [r \in Runs |-> << >>]
  /\ doneAtStart = [r \in Runs |-> {}]
  /\ uploadBatch = [r \in Runs |-> NoBatch]

ResolverIdle ==
  /\ rRow = << >>
  /\ rNames = << >>
  /\ rResult = EmptyStr
  /\ rPc = "off"

\* no iteration is run on its own
NoResult == [pc |-> "none"]

IterationIdle ==
  /\ itRow = << >>
  /\ itVariant = "none"
  /\ itResult = NoResult
  /\ itPc = "off"

\* the tables that the tracking routes write, and the names the model's
\* requests store in them
Tables == {"competitors", "clients"}

StoredNames == {<<"A","C","M","E">>, <<"Z","E","D">>}

\* company_info without a row
NoCompany == << >>

DefaultCompany == <<"A","G","N","A"," ","O","R","G"," ","A","G","R","O","V","I","L","L","A"," ","I","N","D","I","A"," ","P","R","I","V","A","T","E"," ","L","I","M","I","T","E","D">>

NoReply == [route |-> "none"]

RoutesInit ==
  /\ competitors = << >>
  /\ clients = << >>
  /\ company_info = NoCompany
  /\ feedback = 0
  /\ lastOp = [t \in Tables |-> [n \in StoredNames |-> "none"]]
  /\ reply = NoReply

\* the callers of the api variant: requests that go through its middleware
MaxCallers == 3
Callers == 1..MaxCallers

\* a caller that has not arrived
NoCaller == [pc |-> "none", seen |-> 0]

AwaitIdle ==
  /\ now = 0
  /\ inFlight = [r \in Runs |-> {}]
  /\ initPc = [i \in Callers |-> NoCaller]

Init ==
  /\ ImportInit
  /\ ResolverIdle
  /\ IterationIdle
  /\ RoutesInit
  /\ AwaitIdle

-----------------------------------------------------------------------------
(* Start-up                                                                *)

\* initDb: "Insert default company if not exists"
InsertDefaultCompany(company) ==
  IF Len(company) = 0 THEN <<DefaultCompany>> ELSE company

\* server/index.js: initDb().then(listen).catch(listen).  The unique index
\* is created unless the table already breaks it; the server listens either
\* way.
StartServer ==
  /\ "server" \notin started
  /\ started' = started \cup {"server"}
  /\ idxUnique' = (idxUnique \/ ~BreaksUnique(exports))
  /\ company_info' = InsertDefaultCompany(company_info)
  /\ UNCHANGED <<exports, tz, faults, req, pc, progressCount, inserted, skipped,
                 noIdCount, res, outcome, doneAtStart, resolverVars, iterationVars,
                 awaitVars, uploadBatch, competitors, clients, feedback, lastOp, reply>>

\* api/index.js: initDb, run by the middleware of the first request; it
\* creates no unique index on exports
InitDbApi ==
  /\ "api" \notin started
  /\ started' = started \cup {"api"}
  /\ company_info' = InsertDefaultCompany(company_info)
  /\ UNCHANGED <<exports, idxUnique, tz, faults, req, pc, progressCount, inserted,
                 skipped, noIdCount, res, outcome, doneAtStart, resolverVars, iterationVars,
                 awaitVars, uploadBatch, competitors, clients, feedback, lastOp, reply>>

-----------------------------------------------------------------------------
(* POST /api/upload                                                        *)

ErrorResponse(status, error) ==
  [status |-> status, error |-> error]

\* res.json({ success: true, ... }); the api variant has no noIdCount
Summary(q, ins, skp, noid) ==
  IF q.variant = "server"
  THEN [status |-> 200, total |-> Len(q.data), inserted |-> ins, skipped |-> skp,
        noIdCount |-> noid, dataType |-> q.dataType,
        columnsFound |-> [i \in 1..Len(SheetRow[q.data[1]]) |-> SheetRow[q.data[1]][i].k]]
  ELSE [status |-> 200, total |-> Len(q.data), inserted |-> ins, skipped |-> skp,
        dataType |-> q.dataType,
        columnsFound |-> [i \in 1..Len(SheetRow[q.data[1]]) |-> SheetRow[q.data[1]][i].k]]

\* the handler without the check of dataType
UploadEntryAnyType(q) ==
  IF ~q.hasFile
  THEN ErrorResponse(400, "No file uploaded")
  ELSE IF ~q.readable
  THEN ErrorResponse(500, "XLSX.read failed")
  ELSE IF Len(q.data) = 0
  THEN ErrorResponse(400, "Excel file is empty")
  ELSE NoResponse

\* the handler from its entry to the row loop; the error texts are the
\* code's, the second up to its first full stop
UploadEntry(q) ==
  IF ~q.hasFile
  THEN ErrorResponse(400, "No file uploaded")
  ELSE IF q.dataType \notin ValidTypes
  THEN ErrorResponse(400, "Invalid data type")
  ELSE IF ~q.readable
  THEN ErrorResponse(500, "XLSX.read failed")
  ELSE IF Len(q.data) = 0
  THEN ErrorResponse(400, "Excel file is empty")
  ELSE IF q.variant = "server"
  THEN \* autoSave = false: the module declares no autoSave, and an
       \* assignment to an undeclared name throws in an ES module
       ErrorResponse(500, "autoSave is not defined")
  ELSE NoResponse

\* after the loop: the server variant unlinks req.file.path, which memory
\* storage leaves undefined, so fs.unlinkSync throws
AfterLoop(q, ins, skp, noid) ==
  IF q.variant = "server"
  THEN ErrorResponse(500, "fs.unlinkSync: path must be a string")
  ELSE Summary(q, ins, skp, noid)

\* `${Date.now()}-${dataType}`: the digits of the time, a hyphen, the
\* category; kept as its two parts
BatchTag(time, dataType) ==
  [at |-> time, dataType |-> dataType]

\* the runs are numbered in the order in which their requests arrive
Upload(r, q) ==
  /\ pc[r] = "idle"
  /\ \A o \in Runs : o < r => pc[o] # "idle"
  /\ q.variant \in started
  /\ req' = [req EXCEPT ![r] = q]
  /\ doneAtStart' = [doneAtStart EXCEPT ![r] = {o \in Runs : pc[o] = "done"}]
  /\ res' = [res EXCEPT ![r] = UploadEntry(q)]
  /\ pc' = [pc EXCEPT ![r] = IF UploadEntry(q).status = 0 THEN "loop" ELSE "done"]
  /\ uploadBatch' = [uploadBatch EXCEPT ![r] =
                       IF UploadEntry(q).status = 0 THEN BatchTag(now, q.dataType) ELSE @]
  /\ UNCHANGED <<exports, idxUnique, started, tz, faults, progressCount, inserted,
                 skipped, noIdCount, outcome, otherVars>>

\* productDesc?.substring(...) of the server variant's logging: a TypeError
\* unless productDesc is a string
SubstringThrows(f) ==
  f.productDesc.t # "str"

\* the iteration without the try around the insert: a failed insert leaves
\* the loop for the outer catch
RowOutcomeUncaught(q, n, skp, f, id, rec, table, indexed, fault) ==
  IF q.variant = "server" /\ n < 3 /\ SubstringThrows(f) THEN "throw"
  ELSE IF ~Truthy(id) THEN "noid"
  ELSE IF ~fault /\ ~UniqueViolation(table, rec, indexed) THEN "inserted"
  ELSE "throw"

\* what one iteration does, given the random suffix and whether the storage
\* fails on this insert:
\*   "throw"     an exception leaves the loop for the outer catch
\*   "inserted"  the insert succeeded
\*   "duplicate" the unique index rejected the insert
\*   "failed"    the insert failed otherwise
\*   "noid"      no insert was attempted
RowOutcome(q, n, skp, f, id, rec, table, indexed, fault) ==
  IF q.variant = "server" /\ n < 3 /\ SubstringThrows(f) THEN "throw"
  ELSE IF ~Truthy(id) THEN "noid"
  ELSE IF ~fault /\ ~UniqueViolation(table, rec, indexed) THEN "inserted"
  ELSE IF q.variant = "server" /\ skp < 5 /\ SubstringThrows(f) THEN "throw"
  ELSE IF fault THEN "failed"
  ELSE "duplicate"

\* the row that the INSERT stores: the arguments by column, the last of
\* them uploadBatch
StoredRow(args, batch) ==
  [c \in DOMAIN args \cup {"upload_batch"} |->
     IF c = "upload_batch" THEN batch ELSE args[c]]

\* the end of an iteration whose outcome is o: the counters, the table, and
\* the response when the row was the last or the loop was left
Counted(r, fault, e, o) ==
  LET q == req[r]
      n == progressCount[r]
      ins == inserted[r] + (IF o = "inserted" THEN 1 ELSE 0)
      skp == skipped[r] + (IF o \in {"duplicate", "failed", "noid"} THEN 1 ELSE 0)
      noid == noIdCount[r] + (IF o = "noid" /\ q.variant = "server" THEN 1 ELSE 0)
  IN  /\ fault => /\ o \in {"failed", "throw"}
                  /\ Truthy(e.id)
                  /\ ~(q.variant = "server" /\ n < 3 /\ SubstringThrows(e.locals))
      /\ ~fault => o # "failed"
      /\ faults' = faults + (IF fault THEN 1 ELSE 0)
      /\ exports' = IF o = "inserted"
                    THEN exports (+) SetToBag({StoredRow(e.args, uploadBatch[r])})
                    ELSE exports
      /\ progressCount' = [progressCount EXCEPT ![r] = n + 1]
      /\ inserted' = [inserted EXCEPT ![r] = ins]
      /\ skipped' = [skipped EXCEPT ![r] = skp]
      /\ noIdCount' = [noIdCount EXCEPT ![r] = noid]
      /\ outcome' = [outcome EXCEPT ![r] = Append(@, o)]
      /\ res' = [res EXCEPT ![r] =
                   IF o = "throw" THEN ErrorResponse(500, "substring is not a function")
                   ELSE IF n + 1 = Len(q.data) THEN AfterLoop(q, ins, skp, noid)
                   ELSE @]
      /\ pc' = [pc EXCEPT ![r] = IF o = "throw" \/ n + 1 = Len(q.data) THEN "done" ELSE "loop"]

\* the iteration over the row whose locals, uniqueId and INSERT arguments
\* are e
Iteration(r, fault, e) ==
  Counted(r, fault, e,
          RowOutcome(req[r], progressCount[r], skipped[r], e.locals, e.id, e.args,
                     exports, idxUnique, fault))

\* one iteration of the row loop, and the response when it was the last
ProcessRow(r, random, fault) ==
  /\ pc[r] = "loop"
  /\ fault => faults < MaxFaults
  /\ Iteration(r, fault, RowEntry(req[r].data[progressCount[r] + 1], req[r].variant, tz,
                                  random, req[r].dataType))
  /\ UNCHANGED <<idxUnique, started, tz, req, doneAtStart, uploadBatch, otherVars>>

Next ==
  \/ StartServer
  \/ InitDbApi
  \/ \E r \in Runs, q \in Requests : Upload(r, q)
  \/ \E r \in Runs, random \in RandomSuffixes, fault \in BOOLEAN : ProcessRow(r, random, fault)

Spec == Init /\ [][Next]_vars


-----------------------------------------------------------------------------
(* findColumnValue called on its own                                       *)

\* the longest row and the longest alias list of the resolver's inputs
MaxCells == 2
MaxAliases == 2

ResolverHeaders ==
  {<<"S","B"," ","N","o">>, <<"S","B","_","N","O">>, <<"B","i","l","l"," ","N","o">>}

ResolverAliases ==
  {<<"S","B"," ","N","o">>, <<"B","i","l","l"," ","N","o">>, <<"B","i","l","l">>}

\* cell values: absent, null, empty, blank, zero as number and as text, text
ResolverValues ==
  {Undefined, Null, EmptyStr, Str(<<" ">>), Num(0), Str(<<"0">>), Str(<<"x">>)}

\* the rows of at most MaxCells cells with distinct headers
ResolverRows ==
  UNION {{row \in [1..n -> [k : ResolverHeaders, v : ResolverValues]] :
            \A i, j \in 1..n : i # j => row[i].k # row[j].k} : n \in 0..MaxCells}

\* the alias lists of at most MaxAliases distinct aliases
ResolverNames ==
  UNION {{names \in [1..n -> ResolverAliases] :
            \A i, j \in 1..n : i # j => names[i] # names[j]} : n \in 1..MaxAliases}

ResolveInit ==
  /\ ImportInit
  /\ tz = 0
  /\ rRow \in ResolverRows
  /\ rNames \in ResolverNames
  /\ rResult = EmptyStr
  /\ rPc = "call"
  /\ IterationIdle
  /\ RoutesInit
  /\ AwaitIdle

\* const value = findColumnValue(row, possibleNames)
Resolve ==
  /\ rPc = "call"
  /\ rResult' = findColumnValue(rRow, rNames)
  /\ rPc' = "done"
  /\ UNCHANGED <<importVars, rRow, rNames, iterationVars, routeVars, awaitVars>>

ResolveNext == Resolve

ResolveSpec == ResolveInit /\ [][ResolveNext]_vars


-----------------------------------------------------------------------------
(* Properties of findColumnValue, under ResolveSpec                        *)

\* the emptiness rule as the specification words it: a value is present
\* unless it is null, undefined or a text of white space only
Present(v) ==
  /\ v # Null
  /\ v # Undefined
  /\ ~(v.t = "str" /\ \A i \in 1..Len(v.s) : v.s[i] \in {" ", "\t"})

Least(S) ==
  CHOOSE x \in S : \A y \in S : x <= y

\* the aliases that equal a header whose value is present
ExactHits(row, names) ==
  {i \in 1..Len(names) :
     \E c \in 1..Len(row) : row[c].k = names[i] /\ Present(row[c].v)}

\* the cell keyMap holds for the normalized form n: the last such cell
NormalizedCell(row, n) ==
  {c \in 1..Len(row) :
     /\ Normalize(row[c].k) = n
     /\ \A d \in (c + 1)..Len(row) : Normalize(row[d].k) # n}

\* the aliases that equal a header whose value is present, or whose
\* normalized form is that of a header kept by keyMap whose value is present
AliasHits(row, names) ==
  ExactHits(row, names) \cup
    {i \in 1..Len(names) :
       \E c \in NormalizedCell(row, Normalize(names[i])) : Present(row[c].v)}

\* what alias name yields: the value under the equal header when present,
\* else the value under the header keyMap holds for its normalized form
AliasValue(row, name) ==
  IF \E c \in 1..Len(row) : row[c].k = name /\ Present(row[c].v)
  THEN row[CHOOSE c \in 1..Len(row) : row[c].k = name].v
  ELSE row[CHOOSE c \in NormalizedCell(row, Normalize(name)) : TRUE].v

\* C9 as stated: when some alias equals a header whose value is non-empty,
\* findColumnValue returns the value under the first such alias in priority
\* order, whatever other headers the row has.
C9_ExactMatchWins ==
  (rPc = "done" /\ ExactHits(rRow, rNames) # {})
    => rResult = RowGet(rRow, rNames[Least(ExactHits(rRow, rNames))])

\* C9 amended: when some alias matches a header with a non-empty value,
\* either exactly or after normalization, findColumnValue returns what the
\* first such alias in priority order yields (its equal header when that is
\* non-empty, else its normalized match); an exact match therefore wins
\* over every later alias and over every substring candidate, but not over
\* an earlier alias that matches only after normalization.
C9_FirstMatchingAliasWins ==
  (rPc = "done" /\ AliasHits(rRow, rNames) # {})
    => rResult = AliasValue(rRow, rNames[Least(AliasHits(rRow, rNames))])

\* an exact match exists, and an earlier alias matches after normalization
C9_Witness ==
  /\ rPc = "done"
  /\ ExactHits(rRow, rNames) # {}
  /\ Least(AliasHits(rRow, rNames)) < Least(ExactHits(rRow, rNames))
  /\ rResult = AliasValue(rRow, rNames[1])
  /\ rResult # RowGet(rRow, rNames[2])

\* the cells findColumnValue can reach: a header equal to an alias, or a
\* header kept by keyMap whose normalized form contains, or is contained
\* in, the normalized form of an alias
Reachable(row, names) ==
  {c \in 1..Len(row) :
     \E i \in 1..Len(names) :
       \/ row[c].k = names[i]
       \/ /\ c \in NormalizedCell(row, Normalize(row[c].k))
          /\ \/ includes(Normalize(row[c].k), Normalize(names[i]))
             \/ includes(Normalize(names[i]), Normalize(row[c].k))}

\* C10: findColumnValue treats 0 and "0" as present; only null, undefined
\* and white-space-only values are empty, in all three passes: the result
\* is the value of a reachable cell whose value is present whenever there is
\* one (0 and "0" included), and the empty text only when there is none.
C10_ZeroIsPresent ==
  rPc = "done" =>
    LET P == {c \in Reachable(rRow, rNames) : Present(rRow[c].v)}
    IN  /\ P = {} => rResult = EmptyStr
        /\ P # {} => \E c \in P : rResult = rRow[c].v
        /\ \A c \in P : (P = {c} /\ rRow[c].v \in {Num(0), Str(<<"0">>)})
                          => rResult = rRow[c].v

\* "0" found by the substring pass, after a blank cell under the first alias
\* was passed over
C10_Witness ==
  /\ rPc = "done"
  /\ rResult = Str(<<"0">>)
  /\ \E c \in 1..Len(rRow) : rRow[c].k = rNames[1] /\ rRow[c].v = Str(<<" ">>)
  /\ \A c \in 1..Len(rRow), i \in 1..Len(rNames) :
       rRow[c].v = Str(<<"0">>) => Normalize(rRow[c].k) # Normalize(rNames[i])


-----------------------------------------------------------------------------
(* Properties of the import, under Spec                                    *)

\* a request with a file, a category of the two, and a sheet of one row or more
WellFormed(q) ==
  /\ q.hasFile
  /\ q.dataType \in {"fruits", "vegetables"}
  /\ q.readable
  /\ Len(q.data) >= 1

\* a request with a structural error: no file, a category that is missing
\* or none of the two, or a sheet without rows
StructuralError(q) ==
  \/ ~q.hasFile
  \/ q.dataType \notin {"fruits", "vegetables"}
  \/ q.readable /\ Len(q.data) = 0

\* the rows that have a declaration id of their own
NaturalIdRows == {"dated", "undated", "numericProduct"}

\* the columns of the 6-tuple
KeyOf(a) ==
  <<a.declaration_id, a.shipment_date, a.product_description, a.hs_code,
    a.quantity, a.fob_value>>

\* the next insert of run r fails: the storage fails in this step, or the
\* row has an id and the unique index rejects it
PersistenceFails(r) ==
  \/ faults' = faults + 1
  \/ \A x \in RandomSuffixes :
       LET e == RowEntry(req[r].data[progressCount[r] + 1], req[r].variant, tz, x,
                         req[r].dataType)
       IN  Truthy(e.id) /\ UniqueViolation(exports, e.args, idxUnique)

C1_Step ==
  \A r \in Runs :
    (pc[r] = "loop" /\ progressCount'[r] = progressCount[r] + 1 /\ PersistenceFails(r))
      => /\ skipped'[r] = skipped[r] + 1
         /\ inserted'[r] = inserted[r]
         /\ exports' = exports
         /\ IF progressCount'[r] < Len(req[r].data)
            THEN pc'[r] = "loop" /\ res'[r] = NoResponse
            ELSE /\ pc'[r] = "done"
                 /\ res'[r].status = 200
                 /\ res'[r].total = Len(req[r].data)
                 /\ res'[r].inserted = inserted'[r]
                 /\ res'[r].skipped = skipped'[r]

\* C1: partial-failure isolation.  When the insert of a row fails, by the
\* unique index or by any other storage error, the row adds exactly 1 to
\* skipped and nothing to inserted or to the table, the loop goes on to the
\* next row, and after the last row the run answers with the summary, not
\* with an error.
C1_PartialFailureIsolation ==
  [][C1_Step]_vars

\* a run of two rows whose first insert failed and whose second succeeded,
\* answered with total = 2, inserted = 1, skipped = 1
C1_Witness ==
  \E r \in Runs :
    /\ pc[r] = "done"
    /\ outcome[r] = <<"failed", "inserted">>
    /\ res[r].status = 200
    /\ res[r].total = 2 /\ res[r].inserted = 1 /\ res[r].skipped = 1
    /\ BagCardinality(exports) >= 1

\* C2: only structural failures abort.  A run over a file with a valid
\* category and at least one row ends with the summary, never with a
\* top-level error.
C2_ValidFileSucceeds ==
  \A r \in Runs :
    (pc[r] = "done" /\ WellFormed(req[r])) => res[r].status = 200

\* C3: per-row recoverable conditions never abort.  A run over a sheet with
\* a row whose date or number does not parse, or whose product description
\* is a number, counts every row as inserted or skipped and ends with the
\* summary.
C3_RecoverableRowsCounted ==
  \A r \in Runs :
    (/\ pc[r] = "done"
     /\ WellFormed(req[r])
     /\ \E i \in 1..Len(req[r].data) : req[r].data[i] \in {"undated", "numericProduct"})
      => /\ res[r].status = 200
         /\ progressCount[r] = Len(req[r].data)
         /\ res[r].inserted + res[r].skipped = Len(req[r].data)

\* C4: idempotence.  Importing again a file whose rows have natural
\* declaration ids, after its first import has completed, reports
\* inserted = 0 and adds nothing to the table.
C4_ReimportInsertsNothing ==
  \A r1, r2 \in Runs :
    (/\ r1 \in doneAtStart[r2]
     /\ pc[r2] = "done"
     /\ req[r1].data = req[r2].data
     /\ req[r1].dataType = req[r2].dataType
     /\ \A i \in 1..Len(req[r1].data) : req[r1].data[i] \in NaturalIdRows
     /\ res[r1].status = 200
     /\ res[r2].status = 200
     /\ faults = 0)
      => /\ res[r2].inserted = 0
         /\ inserted[r2] = 0

\* C5: after any imports no two stored records agree on the 6-tuple
\* (declaration id, shipment date, product description, HS code, quantity,
\* FOB value), records without a date included.
C5_NoTwoRecordsAgree ==
  \A a \in BagToSet(exports) :
    /\ CopiesIn(a, exports) = 1
    /\ \A b \in BagToSet(exports) : KeyOf(a) = KeyOf(b) => a = b

\* C6: of two identical rows in one run the first is inserted and the
\* second is rejected: skipped grows by 1, inserted does not.
C6_SecondIdenticalRowRejected ==
  \A r \in Runs :
    (/\ Len(req[r].data) = 2
     /\ req[r].data[1] = req[r].data[2]
     /\ req[r].data[1] \in NaturalIdRows
     /\ progressCount[r] = 2
     /\ inserted[r] >= 1
     /\ faults = 0)
      => /\ inserted[r] = 1
         /\ skipped[r] = 1

\* the 6-tuples of the rows of run r
KeysOfRun(r) ==
  {KeyOf(RowEntry(req[r].data[i], req[r].variant, tz, x, req[r].dataType).args) :
     i \in 1..Len(req[r].data), x \in RandomSuffixes}

\* C7: two imports that run at the same time over overlapping rows with
\* natural declaration ids store each distinct 6-tuple exactly once, and
\* their inserted counts add up to the number of distinct 6-tuples.
C7_ConcurrentImportsCollapse ==
  \A r1, r2 \in Runs :
    (/\ r1 < r2
     /\ r1 \notin doneAtStart[r2]
     /\ pc[r1] = "done" /\ pc[r2] = "done"
     /\ res[r1].status = 200 /\ res[r2].status = 200
     /\ \A i \in 1..Len(req[r1].data) : req[r1].data[i] \in NaturalIdRows
     /\ \A i \in 1..Len(req[r2].data) : req[r2].data[i] \in NaturalIdRows
     /\ KeysOfRun(r1) \cap KeysOfRun(r2) # {}
     /\ BagCardinality(exports) = inserted[r1] + inserted[r2]
     /\ faults = 0)
      => /\ inserted[r1] + inserted[r2] = Cardinality(KeysOfRun(r1) \cup KeysOfRun(r2))
         /\ \A a \in BagToSet(exports) : CopiesIn(a, exports) = 1

C8_Step ==
  \A r \in Runs :
    (pc[r] = "idle" /\ pc'[r] # "idle" /\ StructuralError(req'[r]))
      => /\ pc'[r] = "done"
         /\ res'[r].status = 400
         /\ "error" \in DOMAIN res'[r]
         /\ exports' = exports
         /\ progressCount'[r] = 0 /\ inserted'[r] = 0 /\ skipped'[r] = 0

C8_Answered ==
  \A r \in Runs :
    (pc[r] = "done" /\ StructuralError(req[r]))
      => /\ res[r].status = 400
         /\ outcome[r] = << >>
         /\ progressCount[r] = 0

\* C8: structural errors are raised before any row is processed.  A request
\* without a file, with a category that is missing or none of the two, or
\* with a sheet without rows is answered at once with a single error; no
\* insert is issued for it and the table stays as it was.
C8_StructuralErrorsFirst ==
  [][C8_Step]_vars /\ []C8_Answered

\* a request with a category that is none of the two, answered with the
\* error over a table that holds a record
C8_Witness ==
  /\ exports # EmptyBag
  /\ \E r \in Runs :
       /\ pc[r] = "done"
       /\ req[r].hasFile /\ req[r].dataType = "grains" /\ Len(req[r].data) = 1
       /\ res[r] = ErrorResponse(400, "Invalid data type")
       /\ outcome[r] = << >>

-----------------------------------------------------------------------------
(* One iteration of the row loop on its own: a row, the variant whose     *)
(* handler reads it, and what the iteration has computed when it reaches   *)
(* the insert                                                              *)

H_PortLoading == <<"P","o","r","t"," ","o","f"," ","L","o","a","d","i","n","g">>
H_PortDischarge == <<"P","o","r","t"," ","o","f"," ","D","i","s","c","h","a","r","g","e">>
H_Fob == <<"F","O","B"," ","(","U","S","D",")">>
H_Consignee == <<"C","o","n","s","i","g","n","e","e">>
H_Unit == <<"U","n","i","t">>
H_Currency == <<"C","u","r","r","e","n","c","y">>
H_Country == <<"C","o","u","n","t","r","y">>
H_HSCode == <<"H","S"," ","C","o","d","e">>

T_Dubai == <<"D","u","b","a","i">>
T_Mumbai == <<"M","u","m","b","a","i">>

\* rows with the two port columns, in either order, the loading port filled,
\* blank or empty, and rows with the discharge port alone
PortRows ==
  {<<Cell(H_PortLoading, l), Cell(H_PortDischarge, Str(T_Dubai))>> :
     l \in {Str(T_Mumbai), Str(<<" ">>), EmptyStr}}
    \cup {<<Cell(H_PortDischarge, Str(T_Dubai)), Cell(H_PortLoading, l)>> :
            l \in {Str(T_Mumbai), Str(<<" ">>), EmptyStr}}
    \cup {<<Cell(H_PortDischarge, Str(T_Dubai))>>}

\* FOB cells: text with a currency sign and separators, text without a
\* digit, signs and points in odd places, numbers
FobCells ==
  {Str(<<"$","1",",","2","0","0",".","5","0">>), Str(<<"U","S","D"," ","7","5">>), Str(<<"a","b","c">>), Str(<<"-">>), Str(<<"1","-","2">>),
   Str(<<".","5">>), Str(<<"-","3",".","2","5">>), Str(<<"1",".","2",".","3">>), Str(<<"1","2"," ","k","g">>), Num(120050), Num(0), Num(-700)}

FobRows ==
  {<<Cell(H_Exporter, Str(<<"A","C","M","E">>)), Cell(H_Fob, f), Cell(H_Date, Num(4531200))>> :
     f \in FobCells}

\* date cells: day-first text with either separator, with a day that is
\* and is not a month number, on the first and the last day of a month;
\* the ISO form; text that is no date; the first day of 1901 and days of
\* 1900; serial numbers
DateCells ==
  {Str(<<"2","5","-","1","2","-","2","0","2","4">>), Str(<<"2","5","/","1","2","/","2","0","2","4">>), Str(<<"0","5","-","0","6","-","2","0","2","4">>), Str(<<"0","5","/","0","6","/","2","0","2","4">>),
   Str(<<"0","1","-","0","3","-","2","0","2","4">>), Str(<<"0","3","/","0","1","/","2","0","2","4">>), Str(<<"1","2","-","1","2","-","2","0","2","4">>), Str(<<"3","1","/","0","1","/","2","0","2","4">>),
   Str(<<"1","3","-","1","3","-","2","0","2","4">>), Str(<<"2","0","2","4","-","0","3","-","0","1">>), Str(<<"a","b","c">>), Str(<<"1","-","2">>),
   Str(<<"0","1","/","0","1","/","1","9","0","1">>), Str(<<"1","2","/","3","1","/","1","9","0","0">>), Str(<<"2","5","-","1","2","-","1","9","0","0">>), Str(<<"1","9","0","0","-","0","6","-","1","5">>),
   Num(4531200), Num(6000), Num(100), Num(295846600)}

DateRows ==
  {<<Cell(H_SBNo, Num(10100)), Cell(H_Date, d)>> : d \in DateCells}

\* text cells with white space around them, in lower and in mixed case; a
\* number as exporter; unit and currency filled, blank and missing
TextRows ==
  {<<Cell(H_SBNo, Str(<<" ","s","b","/","7"," ">>)), Cell(H_Exporter, e), Cell(H_Consignee, Str(<<"z","e","d"," "," ","L","t","d"," ">>))>>
     \o <<Cell(H_Product, Str(<<" ","M","a","n","g","o"," ","p","u","l","p">>))>> \o u \o c :
     e \in {Str(<<" ","A","c","m","e"," ","f","o","o","d","s"," ">>), Num(500)},
     u \in {<< >>, <<Cell(H_Unit, Str(<<" ","m","t"," ">>))>>, <<Cell(H_Unit, Str(<<" ">>))>>},
     c \in {<< >>, <<Cell(H_Currency, Str(<<"i","n","r"," ">>))>>}}
    \cup {<<Cell(H_SBNo, Num(10300)), Cell(H_HSCode, Num(80450)),
            Cell(H_PortLoading, Str(<<" ","N","h","a","v","a"," ","S","h","e","v","a"," ">>)), Cell(H_PortDischarge, Str(<<"J","e","b","e","l"," ","A","l","i"," ">>)),
            Cell(H_Country, Str(<<" ","u","a","e">>))>>}

\* declaration id cells: zero as a number and as text, text with white
\* space around it, a blank, a number; with an exporter and alone
IdCells ==
  {Num(0), Str(<<"0">>), Str(<<" ","7"," ">>), Str(<<" ">>), Num(10100)}

IdRows ==
  {<<Cell(H_SBNo, i), Cell(H_Exporter, Str(T_Acme))>> : i \in IdCells}
    \cup {<<Cell(H_SBNo, i)>> : i \in IdCells}

IterationRows ==
  PortRows \cup FobRows \cup DateRows \cup TextRows \cup IdRows \cup {RowNoId, RowUnmatched}

IterationInit ==
  /\ ImportInit
  /\ ResolverIdle
  /\ RoutesInit
  /\ AwaitIdle
  /\ itRow \in IterationRows
  /\ itVariant \in Variants
  /\ itResult = NoResult
  /\ itPc = "row"

\* the locals of the iteration over each row of IterationRows, computed once
IterationTable ==
  {[row |-> row, variant |-> v, zone |-> z, locals |-> RowLocals(row, v, z)] :
     row \in IterationRows, v \in Variants, z \in TimezoneOffsets}

IterationLocals(row, v, z) ==
  (CHOOSE e \in IterationTable : e.row = row /\ e.variant = v /\ e.zone = z).locals

\* the body of `for (const row of data)` from its first statement to the
\* insert: the locals f, the uniqueId, and the arguments the INSERT is given
\* when it is reached (the server variant's logging of the first rows
\* throws before it on a productDesc that is no string)
IterationResult(f, variant, random, dataType) ==
  Bind(uniqueId(f, random), LAMBDA id :
    IF variant = "server" /\ SubstringThrows(f)
    THEN [pc |-> "throw", locals |-> f]
    ELSE IF ~Truthy(id)
    THEN [pc |-> "noid", locals |-> f]
    ELSE [pc |-> "insert", locals |-> f, args |-> InsertArgs(f, id, dataType)])

Iterate(random, dataType) ==
  /\ itPc = "row"
  /\ itResult' = IterationResult(IterationLocals(itRow, itVariant, tz), itVariant, random, dataType)
  /\ itPc' = "done"
  /\ UNCHANGED <<importVars, resolverVars, itRow, itVariant, routeVars, awaitVars>>

IterationNext ==
  \E random \in RandomSuffixes, dataType \in ValidTypes : Iterate(random, dataType)

IterationSpec == IterationInit /\ [][IterationNext]_vars

-----------------------------------------------------------------------------
(* Properties of one iteration, under IterationSpec                        *)

\* the row has a column with this header
HasHeader(row, h) ==
  \E i \in 1..Len(row) : row[i].k = h

-----------------------------------------------------------------------------
(* Further properties of the import, under Spec                            *)

\* the rows of the model without a usable identity in variant v: no
\* declaration id, and the composite of the other fields is '----0'
DegenerateRows(v) ==
  {e.row : e \in {t \in LocalsTable :
                    /\ t.variant = v
                    /\ ~Truthy(t.locals.declarationId)
                    /\ composite(t.locals) = DegenerateComposite}}

\* C12: a row without a declaration id whose exporter, consignee, product
\* and date resolve to empty and whose FOB resolves to 0 is counted as
\* no-id: the run over a well-formed file passes over it without an insert,
\* exactly once, and its summary counts it in the no-id count.
C12_DegenerateRowCountedNoId ==
  \A r \in Runs :
    (pc[r] = "done" /\ WellFormed(req[r]))
      => \A i \in 1..Len(req[r].data) :
           req[r].data[i] \in DegenerateRows(req[r].variant)
             => /\ Len(outcome[r]) = Len(req[r].data)
                /\ outcome[r][i] = "noid"
                /\ res[r].status = 200
                /\ "noIdCount" \in DOMAIN res[r]
                /\ res[r].noIdCount >= 1

\* the text left of s when every character other than a digit, "." and "-"
\* is removed
NumericText(s) ==
  LET keep == {i \in 1..Len(s) : s[i] \in {"0","1","2","3","4","5","6","7","8","9",".","-"}}
      nth[k \in 1..Cardinality(keep)] ==
        CHOOSE i \in keep : Cardinality({j \in keep : j < i}) = k - 1
  IN  [k \in 1..Cardinality(keep) |-> s[nth[k]]]

\* the decimal that text writes, 0 when it writes none
DecimalOrZero(text) ==
  IF parseFloatChars(text) = NaN THEN Num(0) ELSE parseFloatChars(text)

\* the row {"Exporter": "ACME", "FOB (USD)": "$1,200.50", "Date": 45312}
FobExampleRow ==
  <<Cell(H_Exporter, Str(<<"A","C","M","E">>)), Cell(H_Fob, Str(<<"$","1",",","2","0","0",".","5","0">>)), Cell(H_Date, Num(4531200))>>

\* what the FOB aliases of the variant resolve to on the row
FobCell(row, variant) ==
  findColumnValue(row, Aliases(variant).fobValue)

\* C13: the FOB value of an iteration is the decimal read from the string
\* form of the resolved FOB cell after every character other than digits,
\* "." and "-" is removed, and 0 when no decimal can be read; the INSERT is
\* given that value; the row {"Exporter": "ACME", "FOB (USD)": "$1,200.50",
\* "Date": 45312} resolves to FOB 1200.50 and exporter "ACME".
C13_FobStrippedThenParsed ==
  itPc = "done"
    => /\ itResult.locals.fobValue = DecimalOrZero(NumericText(JSString(FobCell(itRow, itVariant))))
       /\ itResult.pc = "insert" => itResult.args.fob_value = itResult.locals.fobValue.n
       /\ itRow = FobExampleRow
            => /\ itResult.locals.fobValue = Num(120050)
               /\ itResult.locals.exporterName = Str(<<"A","C","M","E">>)

\* the iteration over the example row has reached the insert with FOB
\* 1200.50
C13_Witness ==
  /\ itPc = "done"
  /\ itRow = FobExampleRow
  /\ itResult.pc = "insert"
  /\ itResult.args.fob_value = 120050

\* the number of rows of run r whose outcome is one of S
OutcomeCount(r, S) ==
  Cardinality({i \in 1..Len(outcome[r]) : outcome[r][i] \in S})

\* C14: the summary of a run over a well-formed file accounts for every row
\* in separate counters: total is the number of rows, inserted the rows
\* persisted, skipped the rows whose insert failed (duplicates and other
\* storage failures), the no-id count the rows without a usable identity;
\* it also carries the batch tag and the headers of the first row.
C14_SummaryAccountsForRows ==
  \A r \in Runs :
    (pc[r] = "done" /\ WellFormed(req[r]))
      => /\ res[r].status = 200
         /\ res[r].total = Len(req[r].data)
         /\ res[r].inserted = OutcomeCount(r, {"inserted"})
         /\ res[r].skipped = OutcomeCount(r, {"duplicate", "failed"})
         /\ "noIdCount" \in DOMAIN res[r]
         /\ res[r].noIdCount = OutcomeCount(r, {"noid"})
         /\ "uploadBatch" \in DOMAIN res[r]
         /\ res[r].columnsFound
              = [i \in 1..Len(SheetRow[req[r].data[1]]) |-> SheetRow[req[r].data[1]][i].k]

\* C15: duplicate detection by declaration id, date and product: of the
\* rows imported with one declaration id, one shipment date and one product
\* description, at most one is stored, whatever their other fields are.
C15_IdDateProductUnique ==
  \A a \in BagToSet(exports) :
    /\ CopiesIn(a, exports) = 1
    /\ \A b \in BagToSet(exports) :
         (/\ a.declaration_id = b.declaration_id
          /\ a.shipment_date = b.shipment_date
          /\ a.product_description = b.product_description)
           => a = b

-----------------------------------------------------------------------------
(* Further properties of one iteration, under IterationSpec                *)

\* the date cell of a row of DateRows
DateCellOf(row) ==
  RowGet(row, H_Date)

\* the text is DD-MM-YYYY or DD/MM/YYYY with a day of 1..31 and a month of
\* 1..12
IsDayMonthYear(s) ==
  /\ DateFields(s) # << >>
  /\ DateFields(s)[1].len <= 2 /\ DateFields(s)[1].val \in 1..31
  /\ DateFields(s)[2].len <= 2 /\ DateFields(s)[2].val \in 1..12
  /\ DateFields(s)[3].len = 4 /\ DateFields(s)[3].val > 1900

\* C16: a text date DD-MM-YYYY or DD/MM/YYYY is read day first, not month
\* first, also when DD is 12 or less: the shipment date of the iteration
\* has day DD and month MM, and the month-year bucket is YYYY-MM.
C16_DayFirst ==
  (/\ itPc = "done"
   /\ itRow \in DateRows
   /\ DateCellOf(itRow).t = "str"
   /\ IsDayMonthYear(DateCellOf(itRow).s))
    => /\ itResult.locals.shipmentDate
            = DateText(DateFields(DateCellOf(itRow).s)[3].val,
                       DateFields(DateCellOf(itRow).s)[2].val,
                       DateFields(DateCellOf(itRow).s)[1].val)
       /\ itResult.locals.monthYear
            = MonthText(DateFields(DateCellOf(itRow).s)[3].val,
                        DateFields(DateCellOf(itRow).s)[2].val)

\* C17: the month-year bucket of every record handed to the INSERT is
\* derived from its shipment date: month_year is null exactly when
\* shipment_date is null, and otherwise it is the YYYY-MM prefix of
\* shipment_date, for serial numbers and for text dates alike.
C17_MonthFromShipmentDate ==
  (itPc = "done" /\ itResult.pc = "insert")
    => /\ (itResult.args.month_year = Null) <=> (itResult.args.shipment_date = Null)
       /\ itResult.args.shipment_date # Null
            => itResult.args.month_year
                 = MonthText(itResult.args.shipment_date.y, itResult.args.shipment_date.m)

\* text without white space at either end
IsTrimmed(s) ==
  s = << >> \/ (~IsSpace(s[1]) /\ ~IsSpace(s[Len(s)]))

\* text without a lower-case letter
IsUpperCase(s) ==
  \A i \in 1..Len(s) : s[i] \notin DOMAIN UpperOf

\* the columns of exports that hold text taken from the row, with the local
\* each is taken from
TextColumns ==
  [exporter_name |-> "exporterName", consignee_name |-> "consigneeName",
   product_description |-> "productDesc", hs_code |-> "hsCode", unit |-> "unit",
   fob_currency |-> "fobCurrency", port_of_loading |-> "portLoading",
   port_of_discharge |-> "portDischarge", country_of_destination |-> "countryDest"]

UpperColumns == {"exporter_name", "consignee_name"}

\* C18: every record handed to the INSERT is normalized: each text column
\* is the resolved text without the white space around it, exporter name
\* and consignee name in upper case as well; unit is "KGS" when the unit
\* aliases resolve to empty, and currency is "USD" when the currency
\* aliases resolve to empty.
C18_RecordNormalized ==
  (itPc = "done" /\ itResult.pc = "insert")
    => /\ IsTrimmed(itResult.args.declaration_id)
       /\ \A col \in DOMAIN TextColumns :
            /\ IsTrimmed(itResult.args[col])
            /\ col \in UpperColumns => IsUpperCase(itResult.args[col])
            /\ Truthy(itResult.locals[TextColumns[col]])
                 => toLowerCase(itResult.args[col])
                      = toLowerCase(trim(JSString(itResult.locals[TextColumns[col]])))
            /\ (col \notin UpperColumns /\ Truthy(itResult.locals[TextColumns[col]]))
                 => itResult.args[col] = trim(JSString(itResult.locals[TextColumns[col]]))
       /\ findColumnValue(itRow, Aliases(itVariant).unit) = EmptyStr
            => itResult.args.unit = KGS
       /\ findColumnValue(itRow, Aliases(itVariant).fobCurrency) = EmptyStr
            => itResult.args.fob_currency = USD

\* a record whose exporter cell was " Acme foods ", with a blank unit cell
\* and no currency cell, handed to the INSERT as "ACME FOODS", "KGS", "USD"
C18_Witness ==
  /\ itPc = "done"
  /\ itResult.pc = "insert"
  /\ RowGet(itRow, H_Exporter) = Str(<<" ","A","c","m","e"," ","f","o","o","d","s"," ">>)
  /\ RowGet(itRow, H_Unit) = Str(<<" ">>)
  /\ RowGet(itRow, H_Currency) = Undefined
  /\ itResult.args.exporter_name = <<"A","C","M","E"," ","F","O","O","D","S">>
  /\ itResult.args.consignee_name = <<"Z","E","D"," "," ","L","T","D">>
  /\ itResult.args.product_description = <<"M","a","n","g","o"," ","p","u","l","p">>
  /\ itResult.args.unit = KGS
  /\ itResult.args.fob_currency = USD

-----------------------------------------------------------------------------
(* The other routes.  A request is served by a variant whose initDb has    *)
(* run; both variants work on the same tables.                             *)

\* a < b in the byte order of ORDER BY name
NameLess(a, b) ==
  \E k \in 1..(Len(a) + 1) :
    /\ \A j \in 1..(k - 1) : j <= Len(b) /\ a[j] = b[j]
    /\ k <= Len(b)
    /\ k > Len(a) \/ CharCode(a[k]) < CharCode(b[k])

TableOf(t) ==
  IF t = "competitors" THEN competitors ELSE clients

\* SELECT * FROM <table> WHERE active = 1 ORDER BY name
ActiveRows(table) ==
  LET act == {i \in 1..Len(table) : table[i].active = 1}
      nth[k \in 1..Cardinality(act)] ==
        CHOOSE i \in act :
          Cardinality({j \in act : NameLess(table[j].name, table[i].name)}) = k - 1
  IN  [k \in 1..Cardinality(act) |-> [id |-> nth[k], name |-> table[nth[k]].name]]

\* !n || !n.trim()
BlankName(n) ==
  trim(n) = << >>

\* the loop with the names inserted as trimmed, in the case they were typed
AddNamesAsTyped(v, table, names) ==
  LET loop[i \in 1..(Len(names) + 1)] ==
        IF i = 1 THEN [table |-> table, added |-> << >>, errors |-> << >>]
        ELSE Bind(loop[i - 1], LAMBDA acc :
             Bind(trim(names[i - 1]), LAMBDA name :
               IF BlankName(names[i - 1]) THEN acc
               ELSE IF \E j \in 1..Len(acc.table) : acc.table[j].name = name
               THEN [acc EXCEPT !.errors =
                       Append(@, [name |-> names[i - 1], error |-> "Already exists"])]
               ELSE [acc EXCEPT
                       !.table = Append(@, [name |-> name, active |-> 1]),
                       !.added = Append(@, IF v = "server"
                                           THEN [id |-> Len(acc.table) + 1, name |-> name]
                                           ELSE [name |-> name])]))
  IN  loop[Len(names) + 1]

\* the loop of POST /api/competitors and POST /api/clients over namesToAdd:
\* the table, added and errors after the names from position i on; the
\* UNIQUE constraint on name rejects a name the table holds, active or not
AddNames(v, table, names) ==
  LET loop[i \in 1..(Len(names) + 1)] ==
        IF i = 1 THEN [table |-> table, added |-> << >>, errors |-> << >>]
        ELSE Bind(loop[i - 1], LAMBDA acc :
             Bind(toUpperCase(trim(names[i - 1])), LAMBDA name :
               IF BlankName(names[i - 1]) THEN acc
               ELSE IF \E j \in 1..Len(acc.table) : acc.table[j].name = name
               THEN [acc EXCEPT !.errors =
                       Append(@, [name |-> names[i - 1], error |-> "Already exists"])]
               ELSE [acc EXCEPT
                       !.table = Append(@, [name |-> name, active |-> 1]),
                       !.added = Append(@, IF v = "server"
                                           THEN [id |-> Len(acc.table) + 1, name |-> name]
                                           ELSE [name |-> name])]))
  IN  loop[Len(names) + 1]

\* the names of a request that the loop does not pass over, as stored
NamesAsked(names) ==
  {toUpperCase(trim(names[i])) : i \in {j \in 1..Len(names) : ~BlankName(names[j])}}

\* the end of the handler, out being what the loop has left: the table,
\* the request's names as the last ones asked for, and res.json({ added,
\* errors })
Added(t, names, out) ==
  /\ competitors' = IF t = "competitors" THEN out.table ELSE competitors
  /\ clients' = IF t = "clients" THEN out.table ELSE clients
  /\ lastOp' = [lastOp EXCEPT ![t] =
                  [n \in StoredNames |-> IF n \in NamesAsked(names) THEN "add" ELSE @[n]]]
  /\ reply' = [route |-> "POST", table |-> t, added |-> out.added, errors |-> out.errors]

\* POST /api/competitors, POST /api/clients
PostTracked(v, t, names) ==
  /\ v \in started
  /\ Added(t, names, AddNames(v, TableOf(t), names))
  /\ UNCHANGED <<importVars, resolverVars, iterationVars, awaitVars, company_info, feedback>>

\* UPDATE <table> SET active = 0 WHERE id = ?
Deactivate(table, id) ==
  [i \in 1..Len(table) |-> IF i = id THEN [table[i] EXCEPT !.active = 0] ELSE table[i]]

\* a DELETE that clears the shipments along with the tracked name
DeleteTrackedAndShipments(v, t, id) ==
  /\ v \in started
  /\ competitors' = IF t = "competitors" THEN Deactivate(competitors, id) ELSE competitors
  /\ clients' = IF t = "clients" THEN Deactivate(clients, id) ELSE clients
  /\ lastOp' = [lastOp EXCEPT ![t] =
                  [n \in StoredNames |->
                     IF id <= Len(TableOf(t)) /\ TableOf(t)[id].name = n THEN "remove"
                     ELSE @[n]]]
  /\ reply' = [route |-> "DELETE", table |-> t, success |-> TRUE]
  /\ exports' = EmptyBag
  /\ UNCHANGED <<idxUnique, started, tz, faults, req, pc, progressCount, inserted,
                 skipped, noIdCount, res, outcome, doneAtStart, uploadBatch>>
  /\ UNCHANGED <<resolverVars, iterationVars, awaitVars, company_info, feedback>>

\* DELETE /api/competitors/:id, DELETE /api/clients/:id
DeleteTracked(v, t, id) ==
  /\ v \in started
  /\ competitors' = IF t = "competitors" THEN Deactivate(competitors, id) ELSE competitors
  /\ clients' = IF t = "clients" THEN Deactivate(clients, id) ELSE clients
  /\ lastOp' = [lastOp EXCEPT ![t] =
                  [n \in StoredNames |->
                     IF id <= Len(TableOf(t)) /\ TableOf(t)[id].name = n THEN "remove"
                     ELSE @[n]]]
  /\ reply' = [route |-> "DELETE", table |-> t, success |-> TRUE]
  /\ UNCHANGED <<importVars, resolverVars, iterationVars, awaitVars, company_info, feedback>>

\* GET /api/competitors, GET /api/clients
GetTracked(v, t) ==
  /\ v \in started
  /\ reply' = [route |-> "GET", table |-> t, rows |-> ActiveRows(TableOf(t))]
  /\ UNCHANGED <<importVars, resolverVars, iterationVars, awaitVars, competitors, clients,
                 company_info, feedback, lastOp>>

\* GET /api/company
GetCompany(v) ==
  /\ v \in started
  /\ reply' = [route |-> "GET /api/company",
                company |-> IF Len(company_info) = 0 THEN Null
                            ELSE [id |-> 1, company_name |-> company_info[1]]]
  /\ UNCHANGED <<importVars, resolverVars, iterationVars, awaitVars, competitors, clients,
                 company_info, feedback, lastOp>>

\* PUT /api/company: UPDATE company_info SET company_name = ?
PutCompany(v, company_name) ==
  /\ v \in started
  /\ company_info' = [i \in 1..Len(company_info) |-> toUpperCase(trim(company_name))]
  /\ reply' = [route |-> "PUT /api/company", success |-> TRUE]
  /\ UNCHANGED <<importVars, resolverVars, iterationVars, awaitVars, competitors, clients,
                 feedback, lastOp>>

MaxFeedback == 1

\* POST /api/feedback
PostFeedback(v, message) ==
  /\ v \in started
  /\ message # << >> => feedback < MaxFeedback
  /\ feedback' = IF message = << >> THEN feedback ELSE feedback + 1
  /\ reply' = IF message = << >>
              THEN [route |-> "POST /api/feedback", status |-> 400,
                    error |-> "Message is required"]
              ELSE [route |-> "POST /api/feedback", status |-> 200, success |-> TRUE]
  /\ UNCHANGED <<importVars, resolverVars, iterationVars, awaitVars, competitors, clients,
                 company_info, lastOp>>

\* GET /api/feedback
GetFeedback(v) ==
  /\ v \in started
  /\ reply' = [route |-> "GET /api/feedback", rows |-> feedback]
  /\ UNCHANGED <<importVars, resolverVars, iterationVars, awaitVars, competitors, clients,
                 company_info, feedback, lastOp>>

\* the routes that answer from SELECT statements over exports, competitors
\* and clients: search, analytics, intelligence, comparison, benchmarking,
\* report and export routes
ReadRoutes ==
  {"/api/competitors/search", "/api/clients/search", "/api/analytics",
   "/api/intelligence", "/api/monthly-comparison", "/api/benchmarking",
   "/api/custom-report", "/api/export"}

\* the routes of ReadRoutes that the variant has
ReadRoutesOf(v) ==
  IF v = "server" THEN ReadRoutes
  ELSE {"/api/competitors/search", "/api/clients/search", "/api/analytics",
        "/api/intelligence"}

\* a request to one of them; of its answer the model keeps the number of
\* rows of exports that the statements read
Query(v, route) ==
  /\ v \in started
  /\ route \in ReadRoutesOf(v)
  /\ reply' = [route |-> route, rows |-> BagCardinality(exports)]
  /\ UNCHANGED <<importVars, resolverVars, iterationVars, awaitVars, competitors, clients,
                 company_info, feedback, lastOp>>

-----------------------------------------------------------------------------
(* The tracking routes on their own                                        *)

\* the names of the model's requests: two names, as typed, and a blank
RawNames == {<<" ","a","c","m","e">>, <<"Z","e","d">>, <<" ">>}

\* names || [name]: the longest list of names of a request
MaxNames == 2

NameLists == UNION {[1..n -> RawNames] : n \in 1..MaxNames}

\* the ids of the model's requests: those of the rows a table can hold,
\* and one that no row has
TrackIds == 1..(Cardinality(StoredNames) + 1)

TrackInit ==
  /\ Init
  /\ tz = 0

TrackNext ==
  \/ StartServer
  \/ InitDbApi
  \/ \E v \in Variants, t \in Tables, names \in NameLists : PostTracked(v, t, names)
  \/ \E v \in Variants, t \in Tables, id \in TrackIds : DeleteTracked(v, t, id)
  \/ \E v \in Variants, t \in Tables : GetTracked(v, t)

TrackSpec == TrackInit /\ [][TrackNext]_vars

-----------------------------------------------------------------------------
(* Every route, with one upload                                            *)

\* the uploads: a sheet of one row or two, to either variant
RouteUploads ==
  {q \in GoodRequests : q.dataType = "fruits" /\ q.data \in {<<"dated">>, <<"dated", "noId">>}}

CompanyNames == {<<" ","A","g","n","a"," ">>}

Messages == {<< >>, <<"o","k">>}

RoutesNext ==
  \/ StartServer
  \/ InitDbApi
  \/ \E q \in RouteUploads : Upload(1, q)
  \/ \E random \in RandomSuffixes, fault \in BOOLEAN : ProcessRow(1, random, fault)
  \/ \E v \in Variants, t \in Tables : PostTracked(v, t, <<<<" ","a","c","m","e">>>>)
  \/ \E v \in Variants, t \in Tables : DeleteTracked(v, t, 1)
  \/ \E v \in Variants, t \in Tables : GetTracked(v, t)
  \/ \E v \in Variants : GetCompany(v)
  \/ \E v \in Variants, company_name \in CompanyNames : PutCompany(v, company_name)
  \/ \E v \in Variants, message \in Messages : PostFeedback(v, message)
  \/ \E v \in Variants : GetFeedback(v)
  \/ \E v \in Variants, route \in ReadRoutes : Query(v, route)

RoutesSpec == TrackInit /\ [][RoutesNext]_vars

-----------------------------------------------------------------------------
(* Shipment records and the routes                                          *)

\* a step of POST /api/upload: the request arrives, or its row loop goes on
UploadStep ==
  \/ req' # req
  \/ pc' # pc
  \/ progressCount' # progressCount

\* C19: shipment records are created only by the import and are never
\* changed or deleted: a step of any route other than the upload leaves
\* the rows of exports as they are, and a step of the upload leaves every
\* row it finds and can only add rows.
C19_Step ==
  /\ exports \sqsubseteq exports'
  /\ ~UploadStep => exports' = exports

C19_ExportsOnlyGrowByUpload == [][C19_Step]_vars

\* an upload has stored a row and is answered, a tracked name has been
\* added and removed, the company renamed, a feedback stored, and the last
\* request was a DELETE
C19_Witness ==
  /\ BagCardinality(exports) > 0
  /\ pc[1] = "done"
  /\ reply.route = "DELETE"
  /\ \E i \in 1..Len(competitors) : competitors[i].active = 0
  /\ company_info \notin {NoCompany, <<DefaultCompany>>}
  /\ feedback > 0

-----------------------------------------------------------------------------
(* Adding and removing tracked names                                        *)

\* the names that GET /api/<table> lists
Listed(t) ==
  {ActiveRows(TableOf(t))[k].name : k \in 1..Len(ActiveRows(TableOf(t)))}

\* C20: after any sequence of add and remove requests, a name whose most
\* recent operation was an add, reported as added or as 'Already exists',
\* is listed by GET /api/competitors (resp. /api/clients), and a name whose
\* most recent operation was a remove is not listed.
C20_LastOperationDecidesListing ==
  \A t \in Tables, n \in StoredNames :
    /\ lastOp[t][n] = "add" => n \in Listed(t)
    /\ lastOp[t][n] = "remove" => n \notin Listed(t)

-----------------------------------------------------------------------------
(* The names of the tracked tables                                          *)

\* the names that the rows of a table hold, active or not
NamesOf(table) ==
  {table[i].name : i \in 1..Len(table)}

\* every stored name is its own trimmed upper-case form, and no two rows of
\* a table have the same name
C21_Stored ==
  \A t \in Tables :
    /\ \A i \in 1..Len(TableOf(t)) :
         TableOf(t)[i].name = toUpperCase(trim(TableOf(t)[i].name))
    /\ \A i, j \in 1..Len(TableOf(t)) :
         TableOf(t)[i].name = TableOf(t)[j].name => i = j

\* a request to add the single name n, which as typed is no stored name but
\* differs from one only in case or surrounding white space, is answered
\* with n in errors as 'Already exists', and the table stays as it was
C21_Step ==
  \A t \in Tables, n \in RawNames :
    (/\ reply'.route = "POST"
     /\ reply'.table = t
     /\ n \notin NamesOf(TableOf(t))
     /\ toUpperCase(trim(n)) \in NamesOf(TableOf(t)))
    => \A v \in Variants :
         PostTracked(v, t, <<n>>)
         => /\ reply'.errors = <<[name |-> n, error |-> "Already exists"]>>
            /\ reply'.added = << >>
            /\ TableOf(t)' = TableOf(t)

\* C21: tracked names are case-insensitive and stored in upper case: every
\* stored competitor or client name equals its own trimmed upper-case
\* form, no two rows of one table share a name, and adding a name that
\* differs from a stored one only in case or surrounding white space is
\* reported in errors as 'Already exists' and leaves the table unchanged.
C21_NamesUpperCaseAndUnique ==
  []C21_Stored /\ [][C21_Step]_vars

\* " acme" has been asked for while ACME was stored, and answered with
\* 'Already exists'
C21_Witness ==
  /\ reply.route = "POST"
  /\ reply.errors = <<[name |-> <<" ","a","c","m","e">>, error |-> "Already exists"]>>
  /\ \E i \in 1..Len(TableOf(reply.table)) :
       /\ TableOf(reply.table)[i].name = <<"A","C","M","E">>
       /\ TableOf(reply.table)[i].active = 1

-----------------------------------------------------------------------------
(* findColumnValue: the order of the passes and colliding headers, under    *)
(* ResolveSpec                                                              *)

\* the cells whose header is alias name, or normalizes to what it does
MatchingCells(row, name) ==
  {c \in 1..Len(row) :
     row[c].k = name \/ Normalize(row[c].k) = Normalize(name)}

\* the cells whose normalized header contains the normalized alias or is
\* contained in it
SubstringCells(row, name) ==
  {c \in 1..Len(row) :
     \/ includes(Normalize(row[c].k), Normalize(name))
     \/ includes(Normalize(name), Normalize(row[c].k))}

\* the cells with a present value that some alias matches exactly or after
\* normalization
MatchedPresent(row, names) ==
  {c \in 1..Len(row) :
     Present(row[c].v) /\ \E i \in 1..Len(names) : c \in MatchingCells(row, names[i])}

\* C22: a substring match is used only when no alias has an exact or
\* normalized match with a non-empty value: when some alias matches a
\* header exactly or after normalization and the value is non-empty, the
\* result is the value of such a match, whatever an alias of higher
\* priority matches as a substring; and the result is the empty string
\* when no header that an alias matches in any of the three ways has a
\* non-empty value.
C22_SubstringOnlyAsLastResort ==
  rPc = "done" =>
    /\ MatchedPresent(rRow, rNames) # {}
         => \E c \in MatchedPresent(rRow, rNames) : rResult = rRow[c].v
    /\ (\A i \in 1..Len(rNames) : \A c \in SubstringCells(rRow, rNames[i]) :
          ~Present(rRow[c].v))
         => rResult = EmptyStr

\* the first cell of the row whose header normalizes to n
FirstCell(row, n) ==
  {c \in 1..Len(row) :
     /\ Normalize(row[c].k) = n
     /\ \A d \in 1..(c - 1) : Normalize(row[d].k) # n}

\* two headers of the row normalize to the same key
Collides(row) ==
  \E c, d \in 1..Len(row) : c # d /\ Normalize(row[c].k) = Normalize(row[d].k)

\* C23: when several headers of a row normalize to the same key, the
\* normalized match uses the header that comes first in the row's key
\* order: with no exact match, the result is the value under the first
\* header that normalizes to the first alias of which a header is the
\* normalized form, when that value is non-empty; and the substring pass
\* scans every pair of the row, so that the result is not empty when a
\* non-empty value stands under any header that an alias matches.
C23_FirstCollidingHeaderUsed ==
  (rPc = "done" /\ Collides(rRow)) =>
    /\ \A i \in 1..Len(rNames) : \A c \in FirstCell(rRow, Normalize(rNames[i])) :
         (/\ ExactHits(rRow, rNames) = {}
          /\ \A j \in 1..(i - 1) : FirstCell(rRow, Normalize(rNames[j])) = {}
          /\ Present(rRow[c].v))
           => rResult = rRow[c].v
    /\ (\E i \in 1..Len(rNames) : \E c \in SubstringCells(rRow, rNames[i]) :
          Present(rRow[c].v))
         => rResult # EmptyStr

-----------------------------------------------------------------------------
(* The alias lists and the columns of other fields, under IterationSpec     *)

\* the canonical fields of whose alias list in the variant h is a member
FieldsOf(h, variant) ==
  {k \in DOMAIN Aliases(variant) :
     \E i \in 1..Len(Aliases(variant)[k]) : Aliases(variant)[k][i] = h}

\* every header of the row is an alias of exactly one canonical field
OwnedHeaders(row, variant) ==
  \A c \in 1..Len(row) : Cardinality(FieldsOf(row[c].k, variant)) = 1

\* what field k may resolve to: the values under its own headers, or ''
OwnValues(row, variant, k) ==
  {row[c].v : c \in {d \in 1..Len(row) : k \in FieldsOf(row[d].k, variant)}}
    \cup {EmptyStr}

\* the fields that the iteration keeps as resolved
ResolvedFields ==
  {"declarationId", "exporterName", "consigneeName", "productDesc", "hsCode",
   "portLoading", "portDischarge", "countryDest", "dateValue"}

-----------------------------------------------------------------------------
(* Text dates of 1900 and before, under IterationSpec                       *)

\* the year that a text date is written with: the last field of N-N-YYYY,
\* the first of YYYY-MM-DD; 0 for other text
WrittenYear(s) ==
  IF DateFields(s) = << >> THEN 0
  ELSE IF DateFields(s)[3].len = 4 THEN DateFields(s)[3].val
  ELSE IF DateFields(s)[1].len = 4 THEN DateFields(s)[1].val
  ELSE 0

\* C25: a date parsed from a text cell is accepted only if its year exceeds
\* 1900: no record whose date came from text is handed to the INSERT with
\* a shipment_date or a month_year of 1900 or earlier, and a row whose text
\* date is of 1900 or earlier is handed to the INSERT with both fields null.
C25_TextDateAfter1900 ==
  (/\ itPc = "done"
   /\ itRow \in DateRows
   /\ DateCellOf(itRow).t = "str")
    => /\ itResult.pc = "insert"
       /\ itResult.args.shipment_date # Null => itResult.args.shipment_date.y > 1900
       /\ itResult.args.month_year # Null => itResult.args.month_year.y > 1900
       /\ WrittenYear(DateCellOf(itRow).s) \in 1..1900
            => /\ itResult.args.shipment_date = Null
               /\ itResult.args.month_year = Null

-----------------------------------------------------------------------------
(* The identity key, under IterationSpec                                    *)

\* "AUTO-" + the first 20 characters of the base64 of the composite + "-"
\* + a random suffix
SynthesizedKeys(f) ==
  {<<"A","U","T","O","-">> \o slice0(base64(composite(f)), 20) \o Dash \o x : x \in RandomSuffixes}

\* C26: a natural identity key is used as it is: whenever the declaration
\* id resolves to a non-empty value, by the resolver's emptiness rule, so
\* the number 0 and the text "0" included, the row is handed to the INSERT
\* with the trimmed string form of that value as its key; and a
\* synthesized key is handed to the INSERT only when the declaration id
\* resolves to empty.
C26_NaturalKeyUsedAsIs ==
  itPc = "done" =>
    /\ Present(itResult.locals.declarationId)
         => /\ itResult.pc = "insert"
            /\ itResult.args.declaration_id = trim(JSString(itResult.locals.declarationId))
    /\ (/\ itResult.pc = "insert"
        /\ itResult.args.declaration_id \in SynthesizedKeys(itResult.locals))
         => itResult.locals.declarationId = EmptyStr

-----------------------------------------------------------------------------
(* The row loop with the await of the insert: `await run(INSERT ...)`       *)
(* hands the statement to the database and suspends the handler until the   *)
(* database has answered; other handlers run in between.                    *)

\* the iteration over the row with entry e gets to the INSERT
ReachesInsert(r, e) ==
  /\ Truthy(e.id)
  /\ ~(req[r].variant = "server" /\ progressCount[r] < 3 /\ SubstringThrows(e.locals))

\* the entry of the row that run r is at, with the random suffix
CurrentEntry(r, random) ==
  RowEntry(req[r].data[progressCount[r] + 1], req[r].variant, tz, random, req[r].dataType)

\* an issue that does not wait for the insert before it: the rows are
\* handed to the database one after another while earlier ones are pending
IssueInsertAhead(r, random) ==
  /\ pc[r] = "loop"
  /\ progressCount[r] + Cardinality(inFlight[r]) < Len(req[r].data)
  /\ ReachesInsert(r, CurrentEntry(r, random))
  /\ inFlight' = [inFlight EXCEPT ![r] =
                    @ \cup {[row |-> progressCount[r] + Cardinality(inFlight[r]) + 1,
                             random |-> random]}]
  /\ UNCHANGED <<importVars, resolverVars, iterationVars, routeVars, now, initPc>>

\* the iteration up to `await run(...)`: the insert of the row is issued
IssueInsert(r, random) ==
  /\ pc[r] = "loop"
  /\ inFlight[r] = {}
  /\ ReachesInsert(r, CurrentEntry(r, random))
  /\ inFlight' = [inFlight EXCEPT ![r] = {[row |-> progressCount[r] + 1, random |-> random]}]
  /\ UNCHANGED <<importVars, resolverVars, iterationVars, routeVars, now, initPc>>

\* the database answers, and the iteration goes on to its end
CompleteInsert(r, fault) ==
  /\ fault => faults < MaxFaults
  /\ \E i \in inFlight[r] :
       /\ Iteration(r, fault, RowEntry(req[r].data[i.row], req[r].variant, tz, i.random,
                                       req[r].dataType))
       /\ inFlight' = [inFlight EXCEPT ![r] = @ \ {i}]
  /\ UNCHANGED <<idxUnique, started, tz, req, doneAtStart, uploadBatch, resolverVars,
                 iterationVars, routeVars, now, initPc>>

\* an iteration that issues no insert: no uniqueId, or an exception before it
PassRow(r, random) ==
  /\ pc[r] = "loop"
  /\ inFlight[r] = {}
  /\ ~ReachesInsert(r, CurrentEntry(r, random))
  /\ Iteration(r, FALSE, CurrentEntry(r, random))
  /\ UNCHANGED <<idxUnique, started, tz, req, doneAtStart, uploadBatch, otherVars>>

\* the uploads: sheets of one row and of two
LoopUploads ==
  {q \in GoodRequests : q.dataType = "fruits"}

LoopInit ==
  /\ Init
  /\ tz = 0

LoopNext ==
  \/ StartServer
  \/ InitDbApi
  \/ \E r \in Runs, q \in LoopUploads : Upload(r, q)
  \/ \E r \in Runs, random \in RandomSuffixes : IssueInsert(r, random)
  \/ \E r \in Runs, fault \in BOOLEAN : CompleteInsert(r, fault)
  \/ \E r \in Runs, random \in RandomSuffixes : PassRow(r, random)

LoopSpec == LoopInit /\ [][LoopNext]_vars

-----------------------------------------------------------------------------
(* The order of the inserts of one import, under LoopSpec                   *)

\* an import has at most one insert in flight, that of the row after the
\* rows it has processed, and every processed row has one outcome
C27_OneInFlight ==
  \A r \in Runs :
    /\ Cardinality(inFlight[r]) <= 1
    /\ \A i \in inFlight[r] : i.row = progressCount[r] + 1 /\ pc[r] = "loop"
    /\ Len(outcome[r]) = progressCount[r]

\* an insert is issued only when none of the run is in flight, for the row
\* that follows the rows with an outcome; and the rows are passed one at a
\* time
C27_Step ==
  \A r \in Runs :
    /\ (inFlight'[r] # inFlight[r] /\ inFlight'[r] # {})
         => /\ inFlight[r] = {}
            /\ \A i \in inFlight'[r] : i.row = Len(outcome[r]) + 1
    /\ progressCount'[r] # progressCount[r]
         => /\ progressCount'[r] = progressCount[r] + 1
            /\ Len(outcome'[r]) = Len(outcome[r]) + 1
            /\ SubSeq(outcome'[r], 1, Len(outcome[r])) = outcome[r]

\* C27: within one import the rows are processed strictly one after
\* another in sheet order: the insert for row i+1 is issued only after the
\* insert for row i has completed, succeeded or failed, so that an import
\* never has more than one insert in flight, and each row has at most one
\* persistence attempt.
C27_RowsOneAfterAnother ==
  []C27_OneInFlight /\ [][C27_Step]_vars

\* two imports each wait for an insert, one of them for that of its second
\* row after the insert of its first row has failed
C27_Witness ==
  \E r1, r2 \in Runs :
    /\ r1 # r2
    /\ inFlight[r1] # {} /\ inFlight[r2] # {}
    /\ outcome[r1] = <<"failed">>
    /\ \A i \in inFlight[r1] : i.row = 2

-----------------------------------------------------------------------------
(* The counters of the import, under Spec                                   *)

\* C28: the counters of the row loop: after each processed row inserted +
\* skipped is the number of rows processed so far, inserted is the number
\* of inserts of the run that succeeded, in the server variant noIdCount
\* never exceeds skipped, and when the run over a well-formed file has
\* ended inserted + skipped is the number of rows of the sheet.
C28_CountersAddUp ==
  \A r \in Runs :
    /\ inserted[r] + skipped[r] = progressCount[r]
    /\ inserted[r] = OutcomeCount(r, {"inserted"})
    /\ req[r].variant = "server" => noIdCount[r] <= skipped[r]
    /\ (pc[r] = "done" /\ WellFormed(req[r]))
         => inserted[r] + skipped[r] = Len(req[r].data)

-----------------------------------------------------------------------------
(* The imports with the clock of Date.now()                                 *)

\* the last millisecond of the clock of the model
MaxNow == 2

\* a millisecond passes
Tick ==
  /\ now < MaxNow
  /\ now' = now + 1
  /\ UNCHANGED <<importVars, resolverVars, iterationVars, routeVars, inFlight, initPc>>

\* the uploads: sheets of one row, of either category
BatchUploads ==
  {q \in GoodRequests : Len(q.data) = 1}

BatchInit ==
  /\ Init
  /\ tz = 0

BatchNext ==
  \/ StartServer
  \/ InitDbApi
  \/ Tick
  \/ \E r \in Runs, q \in BatchUploads : Upload(r, q)
  \/ \E r \in Runs, random \in RandomSuffixes, fault \in BOOLEAN : ProcessRow(r, random, fault)

BatchSpec == BatchInit /\ [][BatchNext]_vars

-----------------------------------------------------------------------------
(* The upload batch tag, under BatchSpec                                    *)

\* the number of records of the table that carry the tag t
TaggedWith(t) ==
  LET S == {x \in BagToSet(exports) : x.upload_batch = t}
  IN  BagCardinality([x \in S |-> exports[x]])

\* C29: the upload batch tag identifies one import run: the records that
\* carry the tag of a run are the records that this run has inserted, so
\* that the records of one run carry one tag and the records of two runs,
\* also of two runs of one category that start together, different tags.
C29_BatchTagIdentifiesRun ==
  \A r \in Runs :
    /\ pc[r] # "idle" /\ uploadBatch[r] # NoBatch => TaggedWith(uploadBatch[r]) = inserted[r]
    /\ \A o \in Runs \ {r} :
         inserted[r] > 0 /\ inserted[o] > 0 => uploadBatch[r] # uploadBatch[o]

-----------------------------------------------------------------------------
(* The middleware of the api variant, await by await                        *)

\* dbInitialized of api/index.js
dbInitialized == "api" \in started

\* app.use(async (req, res, next) => { await initDb(); ... }): the request
\* of caller i enters the middleware.  With dbInitialized set initDb returns
\* at once and next() calls the handler; otherwise initDb creates the client
\* and the tables (CREATE TABLE IF NOT EXISTS, which changes no table that
\* exists) and goes on to count the companies.
EnterMiddleware(i) ==
  /\ initPc[i].pc = "none"
  /\ \A o \in Callers : o < i => initPc[o].pc # "none"
  /\ initPc' = [initPc EXCEPT ![i].pc = IF dbInitialized THEN "handler" ELSE "count"]
  /\ UNCHANGED <<importVars, resolverVars, iterationVars, routeVars, now, inFlight>>

\* await get('SELECT COUNT(*) as count FROM company_info'), and what
\* follows the answer: with a company in the table dbInitialized = true and
\* next(), without one the INSERT is sent
CountCompany(i) ==
  /\ initPc[i].pc = "count"
  /\ initPc' = [initPc EXCEPT ![i] = [pc |-> IF Len(company_info) = 0 THEN "insert" ELSE "handler",
                                      seen |-> Len(company_info)]]
  /\ started' = IF Len(company_info) = 0 THEN started ELSE started \cup {"api"}
  /\ UNCHANGED <<exports, idxUnique, tz, faults, req, pc, progressCount, inserted,
                 skipped, noIdCount, res, outcome, doneAtStart, uploadBatch,
                 resolverVars, iterationVars, routeVars, now, inFlight>>

\* await run('INSERT INTO company_info (company_name) VALUES (?)', [...]),
\* then dbInitialized = true and next()
InsertCompany(i) ==
  /\ initPc[i].pc = "insert"
  /\ company_info' = Append(company_info, DefaultCompany)
  /\ started' = started \cup {"api"}
  /\ initPc' = [initPc EXCEPT ![i].pc = "handler"]
  /\ UNCHANGED <<exports, idxUnique, tz, faults, req, pc, progressCount, inserted,
                 skipped, noIdCount, res, outcome, doneAtStart, uploadBatch,
                 resolverVars, iterationVars, competitors, clients, feedback, lastOp,
                 reply, now, inFlight>>

\* the handler that next() calls, here that of GET /api/company
HandleGetCompany(i) ==
  /\ initPc[i].pc = "handler"
  /\ reply' = [route |-> "GET /api/company",
                company |-> IF Len(company_info) = 0 THEN Null
                            ELSE [id |-> 1, company_name |-> company_info[1]]]
  /\ initPc' = [initPc EXCEPT ![i].pc = "answered"]
  /\ UNCHANGED <<importVars, resolverVars, iterationVars, competitors, clients,
                 company_info, feedback, lastOp, now, inFlight>>

\* the handler that next() calls, here that of PUT /api/company
HandlePutCompany(i, company_name) ==
  /\ initPc[i].pc = "handler"
  /\ company_info' = [k \in 1..Len(company_info) |-> toUpperCase(trim(company_name))]
  /\ reply' = [route |-> "PUT /api/company", success |-> TRUE]
  /\ initPc' = [initPc EXCEPT ![i].pc = "answered"]
  /\ UNCHANGED <<importVars, resolverVars, iterationVars, competitors, clients,
                 feedback, lastOp, now, inFlight>>

\* a database without tables, no request yet
MiddlewareInit ==
  /\ Init
  /\ tz = 0

MiddlewareNext ==
  \/ \E i \in Callers : EnterMiddleware(i)
  \/ \E i \in Callers : CountCompany(i)
  \/ \E i \in Callers : InsertCompany(i)
  \/ \E i \in Callers : HandleGetCompany(i)
  \/ \E i \in Callers, company_name \in CompanyNames : HandlePutCompany(i, company_name)

MiddlewareSpec == MiddlewareInit /\ [][MiddlewareNext]_vars

-----------------------------------------------------------------------------
(* The initialization of the api variant, under MiddlewareSpec              *)

\* C30: the initialization of the api variant is idempotent under
\* concurrency: whatever the number of requests and however many of them
\* arrive before the initialization has finished, a handler runs only when
\* the initialization has run to its end, and the default company is
\* inserted at most once, so that company_info then holds exactly one row.
C30_InitializedOnce ==
  /\ Len(company_info) <= 1
  /\ \A i \in Callers :
       initPc[i].pc \in {"handler", "answered"}
         => dbInitialized /\ Len(company_info) = 1

=============================================================================
